---- MODULE Spec2Model ----
(***************************************************************************)
(* Walk-forward signal backtester of qjlxg/sea: src/stock_backtester.py.   *)
(*                                                                         *)
(* Prices are integers.  Every float the program derives from them is a    *)
(* fixed-point integer: a value v is held as floor(v * FP).  pandas' NaN   *)
(* is the value NaN, which every comparison answers with FALSE and every   *)
(* arithmetic operation propagates.  Bar indices are 0-based as in the     *)
(* program (df.iloc[k]); a column is a sequence and iloc(col, k) reads it. *)
(***************************************************************************)
EXTENDS Integers, Sequences, FiniteSets, TLC

(* ------------------------------ constants ------------------------------ *)

\* HOLD_PERIODS, stock_backtester.py line 9
HOLD_PERIODS == <<1, 3, 5, 7, 14, 20, 30>>
WEEKLY_RSI_THRESHOLD == 35
\* len(df) < 150: return []
MinLen == 150
\* for i in range(100, ...)
WarmUp == 100
\* rsi6 < 25
RsiThreshold == 25
\* np.nan
NaN == -1000000

(* ------------------------------- bounds -------------------------------- *)

\* fixed-point unit of a derived float (hundredths)
FP == 100
\* fixed-point unit of an exponential weight
WS == 1000
\* the longest input has MinLen + Extra bars
Extra == 4
\* the flat series' price
BasePrice == 30
\* bars per step of a rising series; a falling one takes twice as many
TrendStep == 5
\* the price level shift after a dip
AfterShift == 3
\* glob finds at most MaxFiles files
MaxFiles == 2

(* ------------------------------ arithmetic ----------------------------- *)

IsNaN(x) == x = NaN
Lt(a, b) == ~IsNaN(a) /\ ~IsNaN(b) /\ a < b
Gt(a, b) == ~IsNaN(a) /\ ~IsNaN(b) /\ a > b
Le(a, b) == ~IsNaN(a) /\ ~IsNaN(b) /\ a <= b
Sub(a, b) == IF IsNaN(a) \/ IsNaN(b) THEN NaN ELSE a - b
Abs(a) == IF IsNaN(a) THEN NaN ELSE IF a < 0 THEN 0 - a ELSE a

iloc(col, k) == col[k + 1]

\* floor of p/q for q > 0
FloorDiv(p, q) == IF p >= 0 THEN p \div q ELSE 0 - ((0 - p + q - 1) \div q)

\* p/q rounded to the nearest integer, a tie to the even one (round(), q > 0)
RoundDiv(p, q) ==
    LET f == FloorDiv(p, q)
        r == p - f * q
    IN  IF 2 * r < q THEN f
        ELSE IF 2 * r > q THEN f + 1
        ELSE IF f % 2 = 0 THEN f ELSE f + 1

RECURSIVE MaxOf(_)
MaxOf(s) == IF Len(s) = 1 THEN s[1]
            ELSE LET m == MaxOf(Tail(s)) IN IF s[1] > m THEN s[1] ELSE m

RECURSIVE SumWin(_, _, _)
\* sum of col[lo..hi] (1-based), NaN if any entry is
SumWin(col, lo, hi) ==
    IF lo > hi THEN 0
    ELSE LET rest == SumWin(col, lo + 1, hi)
         IN  IF IsNaN(col[lo]) \/ IsNaN(rest) THEN NaN ELSE col[lo] + rest

\* a column given entry by entry, as a sequence
Column(f) == <<>> \o f

\* Series.rolling(w).sum(): NaN until the window is full
RollingSum(col, w) ==
    Column([k \in 1..Len(col) |-> IF k < w THEN NaN ELSE SumWin(col, k - w + 1, k)])

\* Series.diff()
Diff(col) ==
    Column([k \in 1..Len(col) |-> IF k = 1 THEN NaN ELSE Sub(col[k], col[k - 1])])

(* ------------------------------ indicators ----------------------------- *)

\* one step of the decay of an exponentially weighted sum: v * (1 - alpha),
\* alpha = 2 / (span + 1)
Decay(v, span) == FloorDiv(v * (span - 1), span + 1)

\* the weighted sum num, the weight sum den and the means so far, one entry
\* further: a NaN entry adds no term, and the mean repeats
EwmStep(st, x, span) ==
    LET n == IF IsNaN(x) THEN Decay(st.num, span) ELSE x * WS + Decay(st.num, span)
        d == IF IsNaN(x) THEN Decay(st.den, span) ELSE WS + Decay(st.den, span)
    IN  [num |-> n, den |-> d,
         mean |-> Append(st.mean, IF d = 0 THEN NaN ELSE FloorDiv(n, d))]

RECURSIVE EwmFold(_, _, _, _, _)
\* EwmStep over col[lo..hi] in order, by halves
EwmFold(st, col, span, lo, hi) ==
    IF st.den < 0 \/ lo > hi THEN st
    ELSE IF lo = hi THEN EwmStep(st, col[lo], span)
    ELSE LET mid == (lo + hi) \div 2
         IN  EwmFold(EwmFold(st, col, span, lo, mid), col, span, mid + 1, hi)

\* Series.ewm(span=span).mean() (adjust=True)
EwmMean(col, span) ==
    EwmFold([num |-> 0, den |-> 0, mean |-> <<>>], col, span, 1, Len(col)).mean

\* 100 - (100 / (1 + gain / loss.replace(0, nan))), gain and loss the rolling
\* sums over the same window (their means' ratio is the sums' ratio): the
\* value is 100 * gain / (loss + gain), held to 1/FP
RsiOf(gain, loss) ==
    IF IsNaN(gain) \/ IsNaN(loss) \/ loss = 0 THEN NaN
    ELSE FloorDiv(100 * FP * gain, loss + gain)

\* the RSI column of a close column: delta.where(delta > 0, 0).rolling(6).mean()
\* over abs(delta).rolling(6).mean()
Rsi6(close) ==
    LET delta == Diff(close)
        up == Column([k \in 1..Len(close) |-> IF Gt(delta[k], 0) THEN delta[k] ELSE 0])
        mag == Column([k \in 1..Len(close) |-> Abs(delta[k])])
        gain == RollingSum(up, 6)
        loss == RollingSum(mag, 6)
    IN  Column([k \in 1..Len(close) |-> RsiOf(gain[k], loss[k])])

\* close.rolling(5).mean(), in units of 1/FP
Ma5(close) ==
    LET s == RollingSum(close, 5)
    IN  Column([k \in 1..Len(close) |->
            IF IsNaN(s[k]) THEN NaN ELSE FloorDiv(s[k] * FP, 5)])

\* (ema12 - ema26 - (ema12 - ema26).ewm(span=9).mean()) * 2
MacdHist(close) ==
    LET px == Column([k \in 1..Len(close) |->
                        IF IsNaN(close[k]) THEN NaN ELSE close[k] * FP])
        ema12 == EwmMean(px, 12)
        ema26 == EwmMean(px, 26)
        dif == Column([k \in 1..Len(close) |-> Sub(ema12[k], ema26[k])])
        dea == EwmMean(dif, 9)
    IN  Column([k \in 1..Len(close) |->
            IF IsNaN(Sub(dif[k], dea[k])) THEN NaN ELSE Sub(dif[k], dea[k]) * 2])

\* df['macd_hist'] > df['macd_hist'].shift(1)
MacdImproving(hist) ==
    Column([k \in 1..Len(hist) |-> k > 1 /\ Gt(hist[k], hist[k - 1])])

\* calculate_indicators: the frame with its four indicator columns
calculate_indicators(raw) ==
    LET hist == MacdHist(raw.close)
    IN  [date |-> raw.date, open |-> raw.open, close |-> raw.close,
         volume |-> raw.volume,
         ma5 |-> Ma5(raw.close), rsi6 |-> Rsi6(raw.close),
         macd_hist |-> hist, macd_improving |-> MacdImproving(hist)]

\* the Sunday that ends the week of day t: the label resample('W') gives
WeekLabel(t) == 7 * (t \div 7) + 6

RECURSIVE SortedSeq(_)
\* the members of a finite set of integers, ascending
SortedSeq(S) ==
    IF S = {} THEN <<>>
    ELSE LET m == CHOOSE x \in S : \A y \in S : x <= y
         IN  <<m>> \o SortedSeq(S \ {m})

\* resample('W', on=date).agg({close: 'last'}).dropna(): one row per week that
\* holds a close, labels ascending, each with the close of the week's last row
\* whose close is not NaN
WeeklyClose(date, close) ==
    LET rows == {k \in 1..Len(close) : ~IsNaN(close[k])}
        labels == SortedSeq({WeekLabel(date[k]) : k \in rows})
        last(lab) == CHOOSE k \in rows :
                        /\ WeekLabel(date[k]) = lab
                        /\ \A j \in rows : WeekLabel(date[j]) = lab => j <= k
    IN  Column([j \in 1..Len(labels) |->
            [label |-> labels[j], close |-> close[last(labels[j])]]])

\* get_weekly_rsi: the weekly frame with its w_rsi6 column
get_weekly_rsi(frame) ==
    LET wk == WeeklyClose(frame.date, frame.close)
        rsi == Rsi6(Column([j \in 1..Len(wk) |-> wk[j].close]))
    IN  Column([j \in 1..Len(wk) |->
            [label |-> wk[j].label, close |-> wk[j].close, w_rsi6 |-> rsi[j]]])

\* the weekly rows up to the week the date is in, that week included
WeeksUpToWeekOf(weekly, current_date) ==
    SelectSeq(weekly, LAMBDA r : r.label <= WeekLabel(current_date))

\* df_w[:current_date]: the weekly rows labelled up to the date
WeeksUpTo(weekly, current_date) ==
    SelectSeq(weekly, LAMBDA r : r.label <= current_date)

(* -------------------------------- inputs ------------------------------- *)

\* the closes of the six bars of a dip below the undisturbed price: five
\* falling closes, then the bounce
DipPattern == <<3, 6, 8, 9, 10, 7>>

Trends == {"flat", "down", "up"}

\* what pd.read_csv and the later steps meet in a file: a well-formed table, a
\* file that cannot be read, a table without its close or its open column, a
\* close column holding text, a date column that is no date
Kinds == {"ok", "unreadable", "no_close", "no_open", "bad_close", "bad_date"}

\* the contents of one csv file.  n bars over a calendar of cal trading days a
\* week; the closes follow the trend, fall and bounce at each bar of dips and
\* stay shifted by after from the next bar on; the open of the bar after the
\* first dip is as entry says; the close of bar nanClose (if any) is missing.
\* The rows are in the order of their dates.
File(kind, n, cal, trend, dips, after, entry, nanClose) ==
    [kind |-> kind, n |-> n, cal |-> cal, trend |-> trend, dips |-> dips,
     after |-> after, entry |-> entry, nanClose |-> nanClose, swap |-> 0 - 1]

\* the file f with the rows of bars a and a + 1 written in each other's place
Swapped(f, a) == [f EXCEPT !.swap = a]

\* the file holding the bars of f in the order of their dates
Sorted(f) == [f EXCEPT !.swap = 0 - 1]

\* the bar that row k of the file holds
BarAt(f, k) ==
    IF f.swap >= 0 /\ k = f.swap THEN k + 1
    ELSE IF f.swap >= 0 /\ k = f.swap + 1 THEN k - 1
    ELSE k

DipSet(f) == {f.dips[j] : j \in 1..Len(f.dips)}

DateOf(f, k) == IF f.cal = 7 THEN k ELSE 7 * (k \div f.cal) + (k % f.cal)

CloseOf(f, k) ==
    LET base == CASE f.trend = "flat" -> BasePrice
                  [] f.trend = "down" -> BasePrice + 10 - (k \div (2 * TrendStep))
                  [] f.trend = "up" -> BasePrice - 10 + (k \div TrendStep)
        inDip == {d \in DipSet(f) : d - 5 <= k /\ k <= d}
        fall == IF inDip = {} THEN 0
                ELSE DipPattern[k - (CHOOSE d \in inDip : TRUE) + 6]
        shift == f.after * Cardinality({d \in DipSet(f) : k > d})
    IN  IF k = f.nanClose THEN NaN ELSE base - fall + shift

\* a bar opens at the previous close, but for the damaged entry bar
OpenOf(f, k) ==
    IF Len(f.dips) > 0 /\ k = f.dips[1] + 1 /\ f.entry # "ok"
    THEN CASE f.entry = "zero" -> 0
           [] f.entry = "neg" -> 0 - 1
           [] f.entry = "nan" -> NaN
    ELSE IF k = 0 THEN BasePrice
    ELSE IF IsNaN(CloseOf(f, k - 1)) THEN BasePrice ELSE CloseOf(f, k - 1)

\* the volume rises on a bounce and is level elsewhere
VolumeOf(f, k) == IF k \in DipSet(f) THEN 150 ELSE 100

\* pd.read_csv(file_path): the table of the file
read_csv(f) ==
    [date |-> Column([k \in 1..f.n |-> DateOf(f, BarAt(f, k - 1))]),
     open |-> Column([k \in 1..f.n |-> OpenOf(f, BarAt(f, k - 1))]),
     close |-> Column([k \in 1..f.n |-> CloseOf(f, BarAt(f, k - 1))]),
     volume |-> Column([k \in 1..f.n |-> VolumeOf(f, BarAt(f, k - 1))])]

MaxHold == MaxOf(HOLD_PERIODS)

\* where a series of n bars has its dips: none, at the first and the last bar
\* the scan reads and at the bars next to them, and twice
DipChoices(n) ==
    IF n < MinLen THEN {<<>>, <<n - MaxHold - 1>>}
    ELSE {<<>>, <<WarmUp - 1>>, <<WarmUp>>, <<n - MaxHold - 1>>, <<n - MaxHold>>,
          <<WarmUp, n - MaxHold - 1>>}

Inputs ==
    \* every length and dip position
    \* and short series
    UNION {{File("ok", n, 5, "flat", d, AfterShift, "ok", 0 - 1) :
               d \in DipChoices(n)} :
           n \in {99, 130, MinLen - 1, MinLen, MinLen + Extra}}
    \* trends, calendars and the direction of the returns
    \cup {File("ok", MinLen, 5, t, <<WarmUp + 4>>, 0 - 3 * AfterShift, "ok", 0 - 1) :
        t \in {"down", "up"}}
    \cup {File("ok", MinLen, 7, t, <<WarmUp + 4>>, AfterShift, "ok", 0 - 1) :
        t \in {"down", "up"}}
    \* a damaged entry bar after the first of two dips
    \cup {File("ok", MinLen, 5, "flat", <<WarmUp, MinLen - MaxHold - 1>>, AfterShift, e, 0 - 1) :
        e \in {"zero", "neg", "nan"}}
    \cup {File("ok", MinLen, 5, "down", <<WarmUp, MinLen - MaxHold - 1>>, AfterShift, "nan", 0 - 1)}
    \* two dips a week apart in a falling series
    \cup {File("ok", MinLen, 5, "down", <<WarmUp, WarmUp + 8>>, AfterShift, "ok", 0 - 1)}
    \* a missing close at a horizon of the signal
    \cup {File("ok", MinLen, 5, "flat", <<WarmUp>>, AfterShift, "ok", WarmUp + 7)}
    \* two rows of one week out of the order of their dates, at the bounce
    \cup {Swapped(File("ok", MinLen, 5, "down", <<WarmUp + 4>>, 0 - 3 * AfterShift, "ok", 0 - 1),
                  WarmUp + 3)}
    \* files that fault
    \cup {File(k, MinLen, 5, "flat", <<WarmUp>>, AfterShift, "ok", 0 - 1) :
        k \in Kinds \ {"ok"}}
    \cup {File("no_open", MinLen, 5, "flat", <<>>, AfterShift, "ok", 0 - 1),
          File("unreadable", 99, 5, "flat", <<>>, AfterShift, "ok", 0 - 1)}

(* ---------------------------- the program state ------------------------ *)

VARIABLES
    \* main
    nfiles,         \* len(files), the files glob found
    mpc,            \* where main is: "map", "stats", "done"
    results,        \* the lists pool.map has collected, in file order
    ledger,         \* the rows written to BACKTEST_REPORT
    summary,        \* the rows written to SUMMARY_REPORT
        \* the call of backtest_single_stock in progress
    wpc,            \* where it is: "idle", "read", "calc", "scan", "done", "raised"
    file,           \* the contents of file_path
    stock_code,
    df,             \* the frame
    df_w,           \* the weekly frame
    i,              \* the index the loop reads next
    stock_signals,
    buy_price,
    ret,            \* the list returned
    exc,            \* the exception the last call met, "" if none
    \* stock_scanner_go.main
    file_list,      \* the files glob found, one task each
    name_map,       \* the entry of the name map for each file's code
    stats_dict,     \* the dictionary of the Manager
    scan_pc,        \* where main is: "map", "done", "aborted"
    raw_results,    \* what pool.map has of each task
    report,         \* the rows written to the report
    \* the call of process_single_stock on each task
    spc,            \* where it is: "start", "inc_total", "gate", "inc_price",
                    \* "inc_turnover", "done", "raised"
    tmp,            \* the value it read for the += 1 in progress
    \* the indicator functions applied to one table
    ohlc,           \* the table: close, high and low
    ind,            \* its indicator columns, <<>> before the call
    \* dragon_breakout_strategy.main
    files,          \* the files glob found, a future each
    pending,        \* the futures as_completed has not yet given
    dragon_results, \* results, in the order the futures completed
    res_df,         \* the rows written to the report
    dragon_pc,      \* where main is: "collect", "done"
    \* portfolio_tracker.calculate_advice
    holding,        \* row: the position's buy date and buy price
    current_price,  \* the latest close of its instrument
    today,          \* datetime.now(SHANGHAI_TZ).date(), a day number
    advice          \* the advice returned, "" before the call

main_vars == <<nfiles, mpc, results, ledger, summary>>
call_vars == <<wpc, file, stock_code, df, df_w, i, stock_signals, buy_price, ret, exc>>
scan_vars == <<file_list, name_map, stats_dict, scan_pc, raw_results, report, spc, tmp>>
ind_vars == <<ohlc, ind>>
dragon_vars == <<files, pending, dragon_results, res_df, dragon_pc>>
advice_vars == <<holding, current_price, today, advice>>
side_vars == <<ind_vars, dragon_vars, advice_vars>>
vars == <<nfiles, mpc, results, ledger, summary,
          wpc, file, stock_code, df, df_w, i, stock_signals, buy_price, ret, exc,
          file_list, name_map, stats_dict, scan_pc, raw_results, report, spc, tmp,
          ohlc, ind, files, pending, dragon_results, res_df, dragon_pc,
          holding, current_price, today, advice>>

NoFile == File("ok", 0, 5, "flat", <<>>, 0, "ok", 0 - 1)
NoFrame == [date |-> <<>>, open |-> <<>>, close |-> <<>>, volume |-> <<>>]

\* the scanner is not run
ScannerAtRest ==
    /\ file_list = <<>>
    /\ name_map = <<>>
    /\ stats_dict = <<>>
    /\ scan_pc = "off"
    /\ raw_results = <<>>
    /\ report = <<>>
    /\ spc = <<>>
    /\ tmp = <<>>

\* main of the backtester at pool.map, no call made yet
BacktesterStart ==
    /\ nfiles \in 0..MaxFiles
    /\ mpc = "map"
    /\ results = <<>>
    /\ ledger = <<>>
    /\ summary = <<>>
    /\ wpc = "idle"
    /\ file = NoFile
    /\ stock_code = 0
    /\ df = NoFrame
    /\ df_w = <<>>
    /\ i = 0
    /\ stock_signals = <<>>
    /\ buy_price = NaN
    /\ ret = <<>>
    /\ exc = ""

\* no table is given to the indicator functions
IndicatorsAtRest ==
    /\ ohlc = <<>>
    /\ ind = <<>>

\* dragon_breakout_strategy is not run
DragonAtRest ==
    /\ files = <<>>
    /\ pending = {}
    /\ dragon_results = <<>>
    /\ res_df = <<>>
    /\ dragon_pc = "off"

\* portfolio_tracker is not run
AdviceAtRest ==
    /\ holding = <<>>
    /\ current_price = NaN
    /\ today = 0
    /\ advice = ""

SideAtRest == IndicatorsAtRest /\ DragonAtRest /\ AdviceAtRest

Init == BacktesterStart /\ ScannerAtRest /\ SideAtRest

(* ------------------------- backtest_single_stock ----------------------- *)

\* a handler that takes the exceptions of reading and parsing alone
CatchesSome(e) == e \in {"OSError", "ValueError"}

\* except: (a bare except clause takes every exception)
Catches(e) == TRUE

\* an exception e inside the try block: the handler returns [], and an
\* exception no handler takes leaves the call
Raise(e) ==
    /\ exc' = e
    /\ ret' = <<>>
    /\ wpc' = IF Catches(e) THEN "done" ELSE "raised"

\* a minimum of as many bars as the scan skips
TooShortOfWarmUp(n) == n < WarmUp

\* if len(df) < 150: return []
TooShort(n) == n < MinLen

\* a range that ends one bar late
ScanEndLate(n) == n - MaxHold + 1

\* a range that ends one bar early
ScanEndEarly(n) == n - MaxHold - 1

\* range(100, len(df) - max(HOLD_PERIODS)) ends before
ScanEnd(n) == n - MaxHold

\* the signal bar itself as the entry bar
EntryBarSame(k) == k

\* the bar whose open is the buy price of a signal at bar k
EntryBar(k) == k + 1

\* the bar whose close ends a holding of p bars of a signal at bar k
ExitBar(k, p) == k + p

\* a guard that lets a price of zero pass
DiscardedBelowZero(price) == Lt(price, 0)

\* if buy_price <= 0: continue
Discarded(price) == Le(price, 0)

\* the change taken relative to the exit price
PctReturnOfExit(target_close, price) ==
    IF IsNaN(target_close) \/ IsNaN(price) \/ target_close = 0 THEN NaN
    ELSE RoundDiv((target_close - price) * 100 * FP, target_close)

\* round((target_close - buy_price) / buy_price * 100, 2), in units of 1/FP;
\* numpy divides by zero without an exception, and the quotient is not finite
PctReturn(target_close, price) ==
    IF IsNaN(target_close) \/ IsNaN(price) \/ price = 0 THEN NaN
    ELSE IF price < 0 THEN RoundDiv((price - target_close) * 100 * FP, 0 - price)
    ELSE RoundDiv((target_close - price) * 100 * FP, price)

\* round(w_status['w_rsi6'], 1), in tenths
Round1(v) == IF IsNaN(v) THEN NaN ELSE RoundDiv(v * 10, FP)

\* curr['rsi6'] < 25 and curr['close'] > curr['ma5'] and curr['macd_improving']
is_ignition(frame, k) ==
    /\ Lt(iloc(frame.rsi6, k), RsiThreshold * FP)
    /\ Gt(iloc(frame.close, k) * FP, iloc(frame.ma5, k))
    /\ iloc(frame.macd_improving, k)

\* the fault an iteration on a firing bar k meets up to buy_price =
\* df.iloc[i+1]['open'], "" if none: no weekly row up to the date, no bar
\* i+1, no open column
EntryFault(f, frame, weekly, k) ==
    IF Len(WeeksUpTo(weekly, iloc(frame.date, k))) = 0 THEN "IndexError df_w"
    ELSE IF EntryBar(k) >= Len(frame.close) THEN "IndexError df"
    ELSE IF f.kind = "no_open" THEN "KeyError"
    ELSE ""

\* the fault target_close = df.iloc[i+p]['close'] meets, "" if none: no bar i+p
ExitFault(frame, k) ==
    IF \E j \in 1..Len(HOLD_PERIODS) : ExitBar(k, HOLD_PERIODS[j]) >= Len(frame.close)
    THEN "IndexError df" ELSE ""

\* the row with the weekly state of the week before the matched one
SignalRowOfWeekBefore(code, frame, weekly, k) ==
    LET upto == WeeksUpTo(weekly, iloc(frame.date, k))
        w_status == upto[Len(upto) - 1]
        is_resonance == Lt(w_status.w_rsi6, WEEKLY_RSI_THRESHOLD * FP)
        price == iloc(frame.open, EntryBar(k))
    IN  [code |-> code,
         date |-> iloc(frame.date, k),
         level |-> IF is_resonance THEN "SSS" ELSE "B",
         w_rsi |-> Round1(w_status.w_rsi6),
         returns |-> [j \in 1..Len(HOLD_PERIODS) |->
                        PctReturn(iloc(frame.close, ExitBar(k, HOLD_PERIODS[j])), price)]]

\* the row res of a signal at bar k
SignalRow(code, frame, weekly, k) ==
    LET upto == WeeksUpTo(weekly, iloc(frame.date, k))
        w_status == upto[Len(upto)]
        is_resonance == Lt(w_status.w_rsi6, WEEKLY_RSI_THRESHOLD * FP)
        price == iloc(frame.open, EntryBar(k))
    IN  [code |-> code,
         date |-> iloc(frame.date, k),
         level |-> IF is_resonance THEN "SSS" ELSE "B",
         w_rsi |-> Round1(w_status.w_rsi6),
         returns |-> [j \in 1..Len(HOLD_PERIODS) |->
                        PctReturn(iloc(frame.close, ExitBar(k, HOLD_PERIODS[j])), price)]]

\* main hands the next file to backtest_single_stock
Dispatch ==
    /\ mpc = "map" /\ wpc = "idle" /\ Len(results) < nfiles
    /\ \E f \in Inputs : file' = f
    /\ stock_code' = Len(results) + 1
    /\ wpc' = "read"
    /\ UNCHANGED <<main_vars, df, df_w, i, stock_signals, buy_price, ret, exc>>
    /\ UNCHANGED <<scan_vars, side_vars>>

\* df = pd.read_csv(file_path); if len(df) < 150: return []
ReadCsv ==
    /\ wpc = "read"
    /\ IF file.kind = "unreadable"
       THEN Raise("OSError") /\ UNCHANGED df
       ELSE /\ df' = read_csv(file)
            /\ IF TooShort(file.n)
               THEN wpc' = "done" /\ ret' = <<>>
               ELSE wpc' = "calc" /\ ret' = ret
            /\ exc' = ""
    /\ UNCHANGED <<main_vars, file, stock_code, df_w, i, stock_signals, buy_price>>
    /\ UNCHANGED <<scan_vars, side_vars>>

\* df = calculate_indicators(df); df_w = get_weekly_rsi(df.copy());
\* stock_signals = []
CalcIndicators ==
    /\ wpc = "calc"
    /\ IF file.kind = "no_close"
       THEN Raise("KeyError") /\ UNCHANGED <<df, df_w, i, stock_signals>>
       ELSE IF file.kind = "bad_close"
       THEN Raise("DataError") /\ UNCHANGED <<df, df_w, i, stock_signals>>
       ELSE IF file.kind = "bad_date"
       THEN /\ Raise("ValueError")
            /\ df' = calculate_indicators(df)
            /\ UNCHANGED <<df_w, i, stock_signals>>
       ELSE /\ df' = calculate_indicators(df)
            /\ df_w' = get_weekly_rsi(calculate_indicators(df))
            /\ stock_signals' = <<>>
            /\ i' = WarmUp
            /\ wpc' = "scan"
            /\ UNCHANGED <<ret, exc>>
    /\ UNCHANGED <<main_vars, file, stock_code, buy_price>>
    /\ UNCHANGED <<scan_vars, side_vars>>

\* one iteration of for i in range(100, len(df) - max(HOLD_PERIODS))
ScanBar ==
    /\ wpc = "scan" /\ i < ScanEnd(Len(df.close))
    /\ IF ~is_ignition(df, i)
       THEN /\ i' = i + 1
            /\ UNCHANGED <<wpc, stock_signals, buy_price, ret, exc>>
       ELSE IF EntryFault(file, df, df_w, i) # ""
       THEN /\ Raise(EntryFault(file, df, df_w, i))
            /\ UNCHANGED <<i, stock_signals, buy_price>>
       ELSE IF Discarded(iloc(df.open, EntryBar(i)))
       THEN /\ buy_price' = iloc(df.open, EntryBar(i))
            /\ i' = i + 1
            /\ UNCHANGED <<wpc, stock_signals, ret, exc>>
       ELSE IF ExitFault(df, i) # ""
       THEN /\ Raise(ExitFault(df, i))
            /\ buy_price' = iloc(df.open, EntryBar(i))
            /\ UNCHANGED <<i, stock_signals>>
       ELSE /\ buy_price' = iloc(df.open, EntryBar(i))
            /\ stock_signals' = Append(stock_signals, SignalRow(stock_code, df, df_w, i))
            /\ i' = i + 1
            /\ UNCHANGED <<wpc, ret, exc>>
    /\ UNCHANGED <<main_vars, file, stock_code, df, df_w>>
    /\ UNCHANGED <<scan_vars, side_vars>>

RECURSIVE Reversed(_)
Reversed(rows) == IF Len(rows) = 0 THEN <<>> ELSE Append(Reversed(Tail(rows)), rows[1])

\* the newest signal returned first
ReturnNewestFirst ==
    /\ wpc = "scan" /\ i >= ScanEnd(Len(df.close))
    /\ ret' = Reversed(stock_signals)
    /\ wpc' = "done"
    /\ UNCHANGED <<main_vars, file, stock_code, df, df_w, i, stock_signals, buy_price, exc>>
    /\ UNCHANGED <<scan_vars, side_vars>>

\* return stock_signals
Return ==
    /\ wpc = "scan" /\ i >= ScanEnd(Len(df.close))
    /\ ret' = stock_signals
    /\ wpc' = "done"
    /\ UNCHANGED <<main_vars, file, stock_code, df, df_w, i, stock_signals, buy_price, exc>>
    /\ UNCHANGED <<scan_vars, side_vars>>

(* ---------------------------------- main ------------------------------- *)

RECURSIVE Flat(_)
\* [s for sub in results for s in sub]
Flat(lists) == IF Len(lists) = 0 THEN <<>> ELSE lists[1] \o Flat(Tail(lists))

(* ------------------------------- float64 ------------------------------- *)

\* The returns are float64 and Series.mean() sums them in float64: a sum is
\* rounded to 53 significant bits after every addition, so the order of the
\* additions is part of the result.  A magnitude is a sequence of limbs, the
\* lowest first and the highest not 0; a float is sign, magnitude and the
\* power of two that scales it.

\* a limb holds 15 bits
LimbBits == 15
Base == 32768
\* significant bits of a float64
Mantissa == 53
\* bits a quotient is carried beyond the mantissa
Guard == 64

RECURSIVE Pow2(_)
Pow2(s) == IF s = 0 THEN 1 ELSE 2 * Pow2(s - 1)

RECURSIVE Bits(_)
\* the length of n in bits
Bits(n) == IF n = 0 THEN 0 ELSE 1 + Bits(n \div 2)

RECURSIVE Big(_)
\* the magnitude of an integer n >= 0
Big(n) == IF n = 0 THEN <<>> ELSE <<n % Base>> \o Big(n \div Base)

RECURSIVE Small(_)
\* the integer of a magnitude
Small(a) == IF Len(a) = 0 THEN 0 ELSE a[1] + Base * Small(Tail(a))

RECURSIVE Trim(_)
Trim(a) == IF Len(a) > 0 /\ a[Len(a)] = 0 THEN Trim(SubSeq(a, 1, Len(a) - 1)) ELSE a

Limb(a, k) == IF k <= Len(a) THEN a[k] ELSE 0

RECURSIVE AddFrom(_, _, _, _)
AddFrom(a, b, k, carry) ==
    IF k > Len(a) /\ k > Len(b) THEN (IF carry = 0 THEN <<>> ELSE <<carry>>)
    ELSE LET t == Limb(a, k) + Limb(b, k) + carry
         IN  <<t % Base>> \o AddFrom(a, b, k + 1, t \div Base)

BigAdd(a, b) == AddFrom(a, b, 1, 0)

RECURSIVE SubFrom(_, _, _, _)
SubFrom(a, b, k, borrow) ==
    IF k > Len(a) THEN <<>>
    ELSE LET t == Limb(a, k) - Limb(b, k) - borrow
         IN  IF t < 0 THEN <<t + Base>> \o SubFrom(a, b, k + 1, 1)
             ELSE <<t>> \o SubFrom(a, b, k + 1, 0)

\* a - b for a >= b
BigSub(a, b) == Trim(SubFrom(a, b, 1, 0))

RECURSIVE CmpFrom(_, _, _)
CmpFrom(a, b, k) ==
    IF k = 0 THEN 0
    ELSE IF a[k] > b[k] THEN 1
    ELSE IF a[k] < b[k] THEN 0 - 1
    ELSE CmpFrom(a, b, k - 1)

\* 1, 0 or -1 as a is above, at or below b
BigCmp(a, b) ==
    IF Len(a) > Len(b) THEN 1
    ELSE IF Len(a) < Len(b) THEN 0 - 1
    ELSE CmpFrom(a, b, Len(a))

RECURSIVE MulFrom(_, _, _, _)
MulFrom(a, c, k, carry) ==
    IF k > Len(a) THEN Big(carry)
    ELSE LET t == a[k] * c + carry
         IN  <<t % Base>> \o MulFrom(a, c, k + 1, t \div Base)

\* a * c for 0 < c <= Base
BigMul(a, c) == IF Len(a) = 0 THEN <<>> ELSE MulFrom(a, c, 1, 0)

RECURSIVE DivFrom(_, _, _, _)
DivFrom(a, n, k, rem) ==
    IF k = 0 THEN [q |-> <<>>, r |-> rem]
    ELSE LET cur == rem * Base + a[k]
             low == DivFrom(a, n, k - 1, cur % n)
         IN  [q |-> low.q \o <<cur \div n>>, r |-> low.r]

\* quotient and remainder of a by n, 0 < n <= Base
BigDiv(a, n) ==
    LET d == DivFrom(a, n, Len(a), 0) IN [q |-> Trim(d.q), r |-> d.r]

ShiftLeft(a, s) ==
    IF Len(a) = 0 THEN <<>>
    ELSE BigMul([k \in 1..(s \div LimbBits) |-> 0] \o a, Pow2(s % LimbBits))

ShiftRight(a, s) ==
    IF s \div LimbBits >= Len(a) THEN <<>>
    ELSE BigDiv(SubSeq(a, s \div LimbBits + 1, Len(a)), Pow2(s % LimbBits)).q

BitLen(a) == IF Len(a) = 0 THEN 0 ELSE LimbBits * (Len(a) - 1) + Bits(a[Len(a)])

IsOdd(a) == Len(a) > 0 /\ a[1] % 2 = 1

\* a with its lowest s bits rounded away, to the nearest and a tie to the
\* even one; sticky says that the value lies above a
RoundShift(a, s, sticky) ==
    IF s <= 0 THEN a
    ELSE LET q == ShiftRight(a, s)
             c == BigCmp(BigSub(a, ShiftLeft(q, s)), ShiftLeft(Big(1), s - 1))
         IN  IF c > 0 \/ (c = 0 /\ (sticky \/ IsOdd(q))) THEN BigAdd(q, Big(1))
             ELSE q

Float(neg, mag, exp) == [neg |-> neg, mag |-> mag, exp |-> exp]

FZero == Float(FALSE, <<>>, 0)

\* the float64 nearest to mag * 2^exp (above it if sticky)
Nearest(neg, mag, exp, sticky) ==
    LET s == BitLen(mag) - Mantissa
    IN  IF s <= 0 THEN Float(neg, mag, exp)
        ELSE Float(neg, RoundShift(mag, s, sticky), exp + s)

\* x / n for an integer 0 < n <= Base
FDiv(x, n) ==
    IF Len(x.mag) = 0 THEN FZero
    ELSE LET d == BigDiv(ShiftLeft(x.mag, Guard), n)
         IN  Nearest(x.neg, d.q, x.exp - Guard, d.r # 0)

\* x * c for an integer 0 < c <= Base
FMul(x, c) == Nearest(x.neg, BigMul(x.mag, c), x.exp, FALSE)

\* x + y
FAdd(x, y) ==
    IF Len(x.mag) = 0 THEN y
    ELSE IF Len(y.mag) = 0 THEN x
    ELSE LET e == IF x.exp < y.exp THEN x.exp ELSE y.exp
             a == ShiftLeft(x.mag, x.exp - e)
             b == ShiftLeft(y.mag, y.exp - e)
             c == BigCmp(a, b)
         IN  IF x.neg = y.neg THEN Nearest(x.neg, BigAdd(a, b), e, FALSE)
             ELSE IF c = 0 THEN FZero
             ELSE IF c > 0 THEN Nearest(x.neg, BigSub(a, b), e, FALSE)
             ELSE Nearest(y.neg, BigSub(b, a), e, FALSE)

\* np.rint(x) as an integer
FRint(x) ==
    LET m == IF x.exp >= 0 THEN Small(ShiftLeft(x.mag, x.exp))
             ELSE Small(RoundShift(x.mag, 0 - x.exp, FALSE))
    IN  IF x.neg THEN 0 - m ELSE m

\* the float64 of a value of v units of 1/FP, not NaN
FromUnits(v) ==
    IF v = 0 THEN FZero
    ELSE FDiv(Float(v < 0, Big(IF v < 0 THEN 0 - v ELSE v), 0), FP)

RECURSIVE FSum(_, _, _)
\* values.sum() of a column whose NaN entries are filled with 0: the entries
\* are added from the first to the last (fewer than 8 of them)
FSum(col, k, acc) ==
    IF k > Len(col) THEN acc
    ELSE FSum(col, k + 1, FAdd(acc, IF IsNaN(col[k]) THEN FZero ELSE FromUnits(col[k])))

\* round(x, 2) in units of 1/FP: np.round multiplies, rounds to an integer
\* and divides
Round2(x) == FRint(FMul(x, FP))

\* the_sum / count, rounded to 2 places, in units of 1/FP
Mean(col, count) == Round2(FDiv(FSum(col, 1, FZero), count))

\* how many entries are > 0: a NaN is not
Wins(col) == Len(SelectSeq(col, LAMBDA v : Gt(v, 0)))

\* how many entries are not NaN
Valid(col) == Len(SelectSeq(col, LAMBDA v : ~IsNaN(v)))

\* (sub_df[col] > 0).mean() * 100, rounded to 2 places, in units of 1/FP: the
\* mean of a boolean column counts every row
WinRate(col) == RoundDiv(Wins(col) * 100 * FP, Len(col))

\* sub_df[col].mean(), rounded to 2 places: pandas leaves the NaN entries out
AvgRet(col) ==
    IF Valid(col) = 0 THEN NaN ELSE Mean(col, Valid(col))

\* len(sub_df)
SampleCount(sub_df) == Len(sub_df)

\* the levels taken in the other order
LevelsResonanceFirst == <<"SSS", "B">>

\* for level in ['B', 'SSS']
Levels == <<"B", "SSS">>

\* the summary rows of one level, one per holding period, none if no row of
\* the ledger has the level
LevelRows(rows, level) ==
    LET sub_df == SelectSeq(rows, LAMBDA r : r.level = level)
    IN  IF Len(sub_df) = 0 THEN <<>>
        ELSE [j \in 1..Len(HOLD_PERIODS) |->
                LET col == [k \in 1..Len(sub_df) |-> sub_df[k].returns[j]]
                IN  [level |-> level, period |-> HOLD_PERIODS[j],
                     win_rate |-> WinRate(col), avg_ret |-> AvgRet(col),
                     count |-> SampleCount(sub_df)]]

SummaryOf(rows) == LevelRows(rows, Levels[1]) \o LevelRows(rows, Levels[2])

\* a pool that drops the lists it holds when a call has met a fault
CollectCancelling ==
    /\ wpc \in {"done", "raised"}
    /\ results' = IF exc # "" THEN [j \in 1..(Len(results) + 1) |-> <<>>]
                  ELSE Append(results, ret)
    /\ wpc' = "idle"
    /\ file' = NoFile
    /\ df' = NoFrame
    /\ df_w' = <<>>
    /\ i' = 0
    /\ stock_signals' = <<>>
    /\ buy_price' = NaN
    /\ ret' = <<>>
    /\ UNCHANGED <<nfiles, mpc, ledger, summary, stock_code, exc>>
    /\ UNCHANGED <<scan_vars, side_vars>>

\* pool.map takes the list the call returned; an exception that left the call
\* leaves pool.map and main
Collect ==
    /\ wpc \in {"done", "raised"}
    /\ IF wpc = "raised"
       THEN mpc' = "aborted" /\ UNCHANGED results
       ELSE results' = Append(results, ret) /\ UNCHANGED mpc
    /\ wpc' = "idle"
    /\ file' = NoFile
    /\ df' = NoFrame
    /\ df_w' = <<>>
    /\ i' = 0
    /\ stock_signals' = <<>>
    /\ buy_price' = NaN
    /\ ret' = <<>>
    /\ UNCHANGED <<nfiles, ledger, summary, stock_code, exc>>
    /\ UNCHANGED <<scan_vars, side_vars>>

\* a merge that does not wait for the calls still to be made
FlattenEarly ==
    /\ mpc = "map" /\ wpc = "idle" /\ Len(results) >= 1
    /\ IF Len(Flat(results)) = 0
       THEN mpc' = "done" /\ UNCHANGED ledger
       ELSE mpc' = "stats" /\ ledger' = Flat(results)
    /\ UNCHANGED <<nfiles, results, summary, call_vars>>
    /\ UNCHANGED <<scan_vars, side_vars>>

\* all_signals = [...]; if not all_signals: return; df_res.to_csv(...)
Flatten ==
    /\ mpc = "map" /\ wpc = "idle" /\ Len(results) = nfiles
    /\ IF Len(Flat(results)) = 0
       THEN mpc' = "done" /\ UNCHANGED ledger
       ELSE mpc' = "stats" /\ ledger' = Flat(results)
    /\ UNCHANGED <<nfiles, results, summary, call_vars>>
    /\ UNCHANGED <<scan_vars, side_vars>>

\* the summary loop and pd.DataFrame(summary).to_csv(...)
Summarize ==
    /\ mpc = "stats"
    /\ summary' = SummaryOf(ledger)
    /\ mpc' = "done"
    /\ UNCHANGED <<nfiles, results, ledger, call_vars>>
    /\ UNCHANGED <<scan_vars, side_vars>>

\* the exit status of the process: main() is the whole script, so a return of
\* main ends it with 0 and an exception that leaves main with 1
ExitStatus == IF mpc = "aborted" THEN 1 ELSE 0

(* ----------------------------------------------------------------------- *)
(* The latest-bar scanner, src/stock_scanner_go.py: main hands every file  *)
(* of the data directory, with the name map and the statistics dictionary  *)
(* of a Manager, to process_single_stock in a pool of processes.           *)
(* ----------------------------------------------------------------------- *)

\* the unit of the scanner's floats: hundredths
Cent == 100
\* MIN_PRICE = 5.0
MIN_PRICE == 5
\* MAX_AVG_TURNOVER_30 = 2.5, in hundredths
MAX_AVG_TURNOVER_30 == 250
\* MIN_VOLUME_RATIO = 0.2 and MAX_VOLUME_RATIO = 0.85, in hundredths
MIN_VOLUME_RATIO == 20
MAX_VOLUME_RATIO == 85
\* MAX_TODAY_CHANGE = 1.5, in hundredths
MAX_TODAY_CHANGE == 150
RSI6_MAX == 25
RSI14_MAX == 35
KDJ_K_MAX == 30
MIN_PROFIT_POTENTIAL == 15
\* potential >= 10.0
WatchPotential == 10
\* len(df_raw) < 60
MinScanLen == 60

\* glob finds at most MaxTasks files for the scanner, and the pool has a
\* process for each
MaxTasks == 2

Ge(a, b) == ~IsNaN(a) /\ ~IsNaN(b) /\ a >= b

(* names *)

\* a value of the name map: a string, or the float NaN of an empty csv cell
Str(text) == [kind |-> "str", text |-> text]
NaNName == [kind |-> "float", text |-> <<>>]
\* no entry for the code
Absent == [kind |-> "absent", text |-> <<>>]

\* the default of name_map.get(stock_code, unknown)
Unknown == Str(<<"wei", "zhi">>)

\* what get returns for an entry
Display(entry) == IF entry = Absent THEN Unknown ELSE entry

\* name_map.get(stock_code, unknown)
NameOf(names, code) == Display(names[code])

\* str.upper() of one character, for the letters the names hold
UpperChar(c) == CASE c = "s" -> "S" [] c = "t" -> "T" [] OTHER -> c
Upper(text) == [k \in 1..Len(text) |-> UpperChar(text[k])]

\* "ST" in text
InText(text) == \E k \in 1..(Len(text) - 1) : text[k] = "S" /\ text[k + 1] = "T"

\* the test on the name as it is written, without upper()
HasSTAsWritten(name) == InText(name.text)

\* "ST" in stock_name.upper()
HasST(name) == InText(Upper(name.text))

(* the files *)

\* the last row of calculate_indicators(df_raw), floats in hundredths:
\* an instrument that every tier-0 condition holds for
BaseLatest ==
    [close |-> 1000, ma5 |-> 900, ma60 |-> 1200, avg_turnover_30 |-> 100,
     vol_ratio |-> 60, has_change |-> TRUE, change |-> 100,
     rsi6 |-> 2000, rsi14 |-> 3000, kdj_k |-> 2000,
     macd_improving |-> TRUE, ma5_up |-> TRUE, kdj_gold |-> FALSE]

\* a csv file of the scanner: whether it can be read, its rows, whether it
\* has the columns calculate_indicators reads, and the last row of its frame
ScanFile(kind, rows, latest) == [kind |-> kind, rows |-> rows, latest |-> latest]

OkFile(latest) == ScanFile("ok", MinScanLen, latest)

\* a file and the entry of the name map for its code
Instrument(f, name) == [file |-> f, name |-> name]

Plain == Str(<<"ping", "an">>)

Instruments ==
    {\* tier 0
     Instrument(OkFile(BaseLatest), Plain),
     \* every tier at once; tier 1 with an unknown turnover
     Instrument(OkFile([BaseLatest EXCEPT !.kdj_gold = TRUE]), Plain),
     Instrument(OkFile([BaseLatest EXCEPT !.ma5_up = FALSE, !.kdj_gold = TRUE,
                                          !.avg_turnover_30 = NaN]), Plain),
     \* tier 1: the five-day mean falling, a golden cross
     Instrument(OkFile([BaseLatest EXCEPT !.ma5_up = FALSE, !.kdj_gold = TRUE]), Plain),
     \* tier 2: no improving histogram, low volume, a small body, far below
     \* the 60-day mean; no entry in the name map
     Instrument(OkFile([BaseLatest EXCEPT !.macd_improving = FALSE]), Absent),
     \* tier 3: a large body; high volume, no change column and a potential of
     \* exactly 10
     Instrument(OkFile([BaseLatest EXCEPT !.macd_improving = FALSE, !.change = 300]), Plain),
     Instrument(OkFile([BaseLatest EXCEPT !.macd_improving = FALSE, !.vol_ratio = 90,
                                          !.has_change = FALSE, !.ma60 = 1100]), Plain),
     \* oversold and no tier: too near the 60-day mean
     Instrument(OkFile([BaseLatest EXCEPT !.macd_improving = FALSE, !.ma60 = 1050]), Plain),
     \* not oversold
     Instrument(OkFile([BaseLatest EXCEPT !.rsi14 = 3600]), Plain),
     \* below the price gate, above the turnover gate
     Instrument(OkFile([BaseLatest EXCEPT !.close = 400, !.ma5 = 300]), Plain),
     Instrument(OkFile([BaseLatest EXCEPT !.avg_turnover_30 = 300]), Plain),
     \* files that are skipped or fault
     Instrument(ScanFile("ok", MinScanLen - 1, BaseLatest), Plain),
     Instrument(ScanFile("unreadable", MinScanLen, BaseLatest), Plain),
     Instrument(ScanFile("no_column", MinScanLen, BaseLatest), Plain),
     \* names
     Instrument(OkFile(BaseLatest), Str(<<"*", "S", "T", "hai">>)),
     Instrument(OkFile(BaseLatest), Str(<<"s", "t", "zhong">>)),
     Instrument(OkFile(BaseLatest), NaNName)}

(* process_single_stock *)

\* (latest['ma60'] - latest['close']) / latest['close'] * 100 >= bound
PotentialAtLeast(latest, bound) ==
    /\ ~IsNaN(latest.ma60) /\ ~IsNaN(latest.close) /\ latest.close > 0
    /\ (latest.ma60 - latest.close) * 100 >= bound * latest.close

\* round(potential, 1), in tenths
PotentialTenths(latest) ==
    IF IsNaN(latest.ma60) \/ IsNaN(latest.close) \/ latest.close <= 0 THEN NaN
    ELSE RoundDiv((latest.ma60 - latest.close) * 1000, latest.close)

RECURSIVE DigitsOf(_)
\* the decimal digits of n >= 0, as character codes
DigitsOf(n) == IF n < 10 THEN <<48 + n>> ELSE Append(DigitsOf(n \div 10), 48 + (n % 10))

\* f"{round(potential, 1)}%" as character codes: "nan%", or a sign if the
\* potential is below zero (a rounded -0.0 keeps it), the digits, ".", the
\* tenth and "%"
DistanceText(latest) ==
    LET t == PotentialTenths(latest)
        a == IF t < 0 THEN 0 - t ELSE t
    IN  IF IsNaN(t) THEN <<110, 97, 110, 37>>
        ELSE (IF latest.ma60 < latest.close THEN <<45>> ELSE <<>>)
                \o DigitsOf(a \div 10) \o <<46, 48 + (a % 10), 37>>

\* change = latest[change] if change in latest else 0
ChangeOf(latest) == IF latest.has_change THEN latest.change ELSE 0

is_oversold(latest) ==
    /\ Le(latest.rsi6, RSI6_MAX * Cent)
    /\ Le(latest.rsi14, RSI14_MAX * Cent)
    /\ Le(latest.kdj_k, KDJ_K_MAX * Cent)

is_shrink_vol(latest) ==
    Le(MIN_VOLUME_RATIO, latest.vol_ratio) /\ Le(latest.vol_ratio, MAX_VOLUME_RATIO)

is_small_body(latest) == Le(Abs(ChangeOf(latest)), MAX_TODAY_CHANGE)

\* the tiers, each tried only while strategy_tag is empty
Tier0(latest) ==
    /\ is_oversold(latest) /\ Gt(latest.close, latest.ma5) /\ latest.macd_improving
    /\ latest.ma5_up /\ Gt(latest.vol_ratio, 50)
Tier1(latest) == is_oversold(latest) /\ latest.kdj_gold /\ latest.macd_improving
Tier2(latest) ==
    /\ is_oversold(latest) /\ is_shrink_vol(latest) /\ is_small_body(latest)
    /\ PotentialAtLeast(latest, MIN_PROFIT_POTENTIAL)
Tier3(latest) == is_oversold(latest) /\ PotentialAtLeast(latest, WatchPotential)

\* the golden cross tried before the ignition
strategy_tagGoldFirst(latest) ==
    IF Tier1(latest) THEN 1
    ELSE IF Tier0(latest) THEN 0
    ELSE IF Tier2(latest) THEN 2
    ELSE IF Tier3(latest) THEN 3
    ELSE 0 - 1

\* strategy_tag: the number of the tier, -1 for the empty tag
strategy_tag(latest) ==
    IF Tier0(latest) THEN 0
    ELSE IF Tier1(latest) THEN 1
    ELSE IF Tier2(latest) THEN 2
    ELSE IF Tier3(latest) THEN 3
    ELSE 0 - 1

\* None
None == [tag |-> 0 - 1]

\* in place of a returned value: the call was left by an exception
Raised == [tag |-> 0 - 2]

\* the dictionary returned for a tagged instrument
ScanRecord(code, name, latest) ==
    [tag |-> strategy_tag(latest), code |-> code, name |-> name.text,
     price |-> latest.close, vol_ratio |-> latest.vol_ratio,
     state |-> <<latest.kdj_gold, latest.ma5_up>>,
     rsi |-> <<Round1(latest.rsi6), Round1(latest.rsi14)>>,
     distance |-> DistanceText(latest),
     change |-> RoundDiv(ChangeOf(latest) * 10, Cent)]

\* latest['close'] < MIN_PRICE
FailsPrice(latest) == Lt(latest.close, MIN_PRICE * Cent)

\* latest['avg_turnover_30'] > MAX_AVG_TURNOVER_30
FailsTurnover(latest) == Gt(latest.avg_turnover_30, MAX_AVG_TURNOVER_30)

\* the call leaves the try block by a return or the handler before it counts
\* the instrument: an ST name, a file that cannot be read, too few rows, a
\* column missing in calculate_indicators
SkippedUncounted(f, name) ==
    HasST(name) \/ f.kind # "ok" \/ f.rows < MinScanLen

\* what process_single_stock returns for a file, its code and the entry of
\* the name map: "raise" for the AttributeError of upper() on a float, which
\* is met before the try block
Outcome(f, code, entry) ==
    IF Display(entry).kind # "str" THEN Raised
    ELSE IF SkippedUncounted(f, Display(entry)) THEN None
    ELSE IF FailsPrice(f.latest) \/ FailsTurnover(f.latest) THEN None
    ELSE IF strategy_tag(f.latest) < 0 THEN None
    ELSE ScanRecord(code, Display(entry), f.latest)

(* the scanner's main *)

Tasks == 1..Len(file_list)

\* the keys of the dictionary main creates
NoStats ==
    [total_scanned |-> 0, fail_price |-> 0, fail_turnover |-> 0,
     fail_potential |-> 0, fail_rsi_kdj |-> 0, fail_volume |-> 0, fail_shape |-> 0]

\* main up to pool.map: the statistics dictionary of the Manager, the name map,
\* the files found and one task for each
ScannerStart ==
    /\ \E n \in 0..MaxTasks : \E insts \in [1..n -> Instruments] :
          /\ file_list = [t \in 1..n |-> insts[t].file]
          /\ name_map = [t \in 1..n |-> insts[t].name]
          /\ spc = [t \in 1..n |-> "start"]
          /\ tmp = [t \in 1..n |-> 0]
          /\ raw_results = [t \in 1..n |-> None]
    /\ stats_dict = NoStats
    /\ scan_pc = "map"
    /\ report = <<>>

\* process_single_stock up to its first use of stats_dict: the name, the ST
\* test, the try block with read_csv, the length test and
\* calculate_indicators, and the read of stats_dict['total_scanned'] that
\* += 1 begins with
ScanBegin(t) ==
    /\ scan_pc = "map" /\ spc[t] = "start"
    /\ IF NameOf(name_map, t).kind # "str"
       THEN /\ spc' = [spc EXCEPT ![t] = "raised"]
            /\ UNCHANGED <<tmp, raw_results>>
       ELSE IF SkippedUncounted(file_list[t], NameOf(name_map, t))
       THEN /\ spc' = [spc EXCEPT ![t] = "done"]
            /\ raw_results' = [raw_results EXCEPT ![t] = None]
            /\ UNCHANGED tmp
       ELSE /\ tmp' = [tmp EXCEPT ![t] = stats_dict.total_scanned]
            /\ spc' = [spc EXCEPT ![t] = "inc_total"]
            /\ UNCHANGED raw_results
    /\ UNCHANGED <<file_list, name_map, stats_dict, scan_pc, report>>
    /\ UNCHANGED <<main_vars, call_vars, side_vars>>

\* the write that ends stats_dict['total_scanned'] += 1
ScanSetTotal(t) ==
    /\ scan_pc = "map" /\ spc[t] = "inc_total"
    /\ stats_dict' = [stats_dict EXCEPT !.total_scanned = tmp[t] + 1]
    /\ spc' = [spc EXCEPT ![t] = "gate"]
    /\ UNCHANGED <<file_list, name_map, tmp, raw_results, scan_pc, report>>
    /\ UNCHANGED <<main_vars, call_vars, side_vars>>

\* the price gate and the turnover gate, each with the read its += 1 begins
\* with, and past them the tiers and the return
ScanGate(t) ==
    /\ scan_pc = "map" /\ spc[t] = "gate"
    /\ IF FailsPrice(file_list[t].latest)
       THEN /\ tmp' = [tmp EXCEPT ![t] = stats_dict.fail_price]
            /\ spc' = [spc EXCEPT ![t] = "inc_price"]
            /\ UNCHANGED raw_results
       ELSE IF FailsTurnover(file_list[t].latest)
       THEN /\ tmp' = [tmp EXCEPT ![t] = stats_dict.fail_turnover]
            /\ spc' = [spc EXCEPT ![t] = "inc_turnover"]
            /\ UNCHANGED raw_results
       ELSE /\ raw_results' = [raw_results EXCEPT ![t] =
                                  IF strategy_tag(file_list[t].latest) < 0 THEN None
                                  ELSE ScanRecord(t, NameOf(name_map, t), file_list[t].latest)]
            /\ spc' = [spc EXCEPT ![t] = "done"]
            /\ UNCHANGED tmp
    /\ UNCHANGED <<file_list, name_map, stats_dict, scan_pc, report>>
    /\ UNCHANGED <<main_vars, call_vars, side_vars>>

\* the write that ends stats_dict['fail_price'] += 1; return None
ScanSetFailPrice(t) ==
    /\ scan_pc = "map" /\ spc[t] = "inc_price"
    /\ stats_dict' = [stats_dict EXCEPT !.fail_price = tmp[t] + 1]
    /\ spc' = [spc EXCEPT ![t] = "done"]
    /\ raw_results' = [raw_results EXCEPT ![t] = None]
    /\ UNCHANGED <<file_list, name_map, tmp, scan_pc, report>>
    /\ UNCHANGED <<main_vars, call_vars, side_vars>>

\* the write that ends stats_dict['fail_turnover'] += 1; return None
ScanSetFailTurnover(t) ==
    /\ scan_pc = "map" /\ spc[t] = "inc_turnover"
    /\ stats_dict' = [stats_dict EXCEPT !.fail_turnover = tmp[t] + 1]
    /\ spc' = [spc EXCEPT ![t] = "done"]
    /\ raw_results' = [raw_results EXCEPT ![t] = None]
    /\ UNCHANGED <<file_list, name_map, tmp, scan_pc, report>>
    /\ UNCHANGED <<main_vars, call_vars, side_vars>>

RECURSIVE LexLess(_, _)
\* a < b for two strings given as character codes
LexLess(a, b) ==
    IF Len(b) = 0 THEN FALSE
    ELSE IF Len(a) = 0 THEN TRUE
    ELSE IF a[1] # b[1] THEN a[1] < b[1]
    ELSE LexLess(Tail(a), Tail(b))

\* the order of sort_values(by=[type, distance], ascending=[True, False])
SortsBefore(a, b) ==
    \/ a.tag < b.tag
    \/ a.tag = b.tag /\ LexLess(b.distance, a.distance)

RECURSIVE SortValues(_)
\* the rows sorted, rows that compare equal in the order they had
SortValues(rows) ==
    IF Len(rows) <= 1 THEN rows
    ELSE LET rest == SortValues(Tail(rows))
             ahead == SelectSeq(rest, LAMBDA r : SortsBefore(r, rows[1]))
             behind == SelectSeq(rest, LAMBDA r : ~SortsBefore(r, rows[1]))
         IN  ahead \o <<rows[1]>> \o behind

\* pool.map returns when every call has ended, and raises in main what a call
\* raised; results = [r for r in raw_results if r is not None]; the sort and
\* the report
ScanJoin ==
    /\ scan_pc = "map"
    /\ \A t \in Tasks : spc[t] \in {"done", "raised"}
    /\ IF \E t \in Tasks : spc[t] = "raised"
       THEN scan_pc' = "aborted" /\ UNCHANGED report
       ELSE /\ scan_pc' = "done"
            /\ report' = SortValues(SelectSeq(raw_results, LAMBDA r : r # None))
    /\ UNCHANGED <<file_list, name_map, stats_dict, spc, tmp, raw_results>>
    /\ UNCHANGED <<main_vars, call_vars, side_vars>>

NextScan ==
    \/ \E t \in Tasks : ScanBegin(t)
    \/ \E t \in Tasks : ScanSetTotal(t)
    \/ \E t \in Tasks : ScanGate(t)
    \/ \E t \in Tasks : ScanSetFailPrice(t)
    \/ \E t \in Tasks : ScanSetFailTurnover(t)
    \/ ScanJoin

(* -------------------------- indicator functions ------------------------ *)

\* the tables given to the indicator functions have SeriesLen bars
SeriesLen == 18
\* the first close of a table
StartPrice == 50

\* ewm(com=com): alpha = 1 / (1 + com), the alpha of span 2 * com + 1
EwmCom(col, com) == EwmMean(col, 2 * com + 1)

\* delta.where(delta > 0, 0): the first delta, NaN, gives 0
Gains(delta) ==
    Column([k \in 1..Len(delta) |-> IF Gt(delta[k], 0) THEN delta[k] ELSE 0])

\* -delta.where(delta < 0, 0): the first delta, NaN, gives 0
Losses(delta) ==
    Column([k \in 1..Len(delta) |-> IF Lt(delta[k], 0) THEN 0 - delta[k] ELSE 0])

\* stock_scanner_go get_rsi(period): 100 - 100 / (1 + gain / loss.replace(0,
\* nan)), in units of 1/FP; the ratio of the rolling means is that of the sums
get_rsi(close, period) ==
    LET delta == Diff(close)
        gain == RollingSum(Gains(delta), period)
        loss == RollingSum(Losses(delta), period)
    IN  Column([k \in 1..Len(close) |-> RsiOf(gain[k], loss[k])])

\* 100 - 100 / (1 + gain / loss) with no replace: a float division by 0 gives
\* inf for gain > 0, and 100 - 100 / inf is 100; 0 / 0 is NaN
RsiOfRatio(gain, loss) ==
    IF IsNaN(gain) \/ IsNaN(loss) THEN NaN
    ELSE IF loss = 0 THEN (IF gain = 0 THEN NaN ELSE 100 * FP)
    ELSE FloorDiv(100 * FP * gain, loss + gain)

\* Breakout_Left_Peak calculate_rsi(series, period)
calculate_rsi(series, period) ==
    LET delta == Diff(series)
        gain == RollingSum(Gains(delta), period)
        loss == RollingSum(Losses(delta), period)
    IN  Column([k \in 1..Len(series) |-> RsiOfRatio(gain[k], loss[k])])

RECURSIVE MinWin(_, _, _)
MinWin(col, lo, hi) ==
    IF lo = hi THEN col[lo]
    ELSE LET m == MinWin(col, lo + 1, hi) IN IF col[lo] < m THEN col[lo] ELSE m

RECURSIVE MaxWin(_, _, _)
MaxWin(col, lo, hi) ==
    IF lo = hi THEN col[lo]
    ELSE LET m == MaxWin(col, lo + 1, hi) IN IF col[lo] > m THEN col[lo] ELSE m

\* Series.rolling(w).min() and .max(): NaN until the window is full
RollingMin(col, w) ==
    Column([k \in 1..Len(col) |-> IF k < w THEN NaN ELSE MinWin(col, k - w + 1, k)])
RollingMax(col, w) ==
    Column([k \in 1..Len(col) |-> IF k < w THEN NaN ELSE MaxWin(col, k - w + 1, k)])

\* (close - low_list) / (high_list - low_list) * 100 in units of 1/FP: a float
\* division of 0 by 0 is NaN, of another number by 0 is inf, which the model
\* holds as NaN too
Rsv(close, low_list, high_list) ==
    Column([k \in 1..Len(close) |->
        IF IsNaN(low_list[k]) \/ IsNaN(high_list[k]) \/ high_list[k] = low_list[k]
        THEN NaN
        ELSE FloorDiv((close[k] - low_list[k]) * 100 * FP, high_list[k] - low_list[k])])

\* the RSI and KDJ columns of calculate_indicators of stock_scanner_go
ScanIndicators(table) ==
    LET low_list == RollingMin(table.low, 9)
        high_list == RollingMax(table.high, 9)
        rsv == Rsv(table.close, low_list, high_list)
        kdj_k == EwmCom(rsv, 2)
    IN  [rsi6 |-> get_rsi(table.close, 6), low_list |-> low_list,
         high_list |-> high_list, rsv |-> rsv, kdj_k |-> kdj_k,
         kdj_d |-> EwmCom(kdj_k, 2)]

\* a table whose close moves by d1 a bar for its first m bars and by d2 a bar
\* after them, with high and low at spread around the close
Table(d1, m, d2, spread) ==
    LET c == [k \in 1..SeriesLen |->
                StartPrice + d1 * (IF k - 1 < m THEN k - 1 ELSE m)
                           + d2 * (IF k - 1 < m THEN 0 ELSE k - 1 - m)]
    IN  [close |-> Column(c),
         high |-> Column([k \in 1..SeriesLen |-> c[k] + spread]),
         low |-> Column([k \in 1..SeriesLen |-> c[k] - spread])]

Tables ==
    {Table(d1, m, d2, spread) :
        d1 \in {0 - 1, 0, 1}, m \in 0..SeriesLen, d2 \in {0 - 2, 0, 1}, spread \in {0, 1}}

\* a table is given to the indicator functions
IndicatorsStart ==
    /\ ohlc \in Tables
    /\ ind = <<>>

\* the RSI of the three programs and the KDJ of the scanner over the table
Indicators ==
    /\ ind = <<>>
    /\ ind' = [scanner |-> ScanIndicators(ohlc),
               backtester |-> Rsi6(ohlc.close),
               left_peak |-> calculate_rsi(ohlc.close, 6)]
    /\ UNCHANGED ohlc
    /\ UNCHANGED <<main_vars, call_vars, scan_vars, dragon_vars, advice_vars>>

NextInd == Indicators

(* ------------------------ dragon_breakout_strategy --------------------- *)

\* glob finds at most MaxDragon files
MaxDragon == 6
\* len(df) < 130
MinDragonLen == 130
\* head(5)
TopRows == 5

\* a csv file of dragon_breakout_strategy: whether it can be read, its rows,
\* the code of its last row, the entry of the name map for the code, and of
\* the last row of the frame the values analyze_stock reads, floats in
\* hundredths; recent_vols are the volumes of the 5 bars before the last
BaseDragon ==
    [kind |-> "ok", rows |-> MinDragonLen, code |-> 600001, name |-> Plain,
     date |-> 1, close |-> 1000, pct |-> 500, turnover |-> 800, vol |-> 30000,
     ma20 |-> 950, ma60 |-> 900, ma120 |-> 850,
     vol_ma5 |-> 12000, vol_ma20 |-> 10000,
     recent_vols |-> <<9000, 8000, 6000, 9000, 11000>>]

\* the score-3 file of code c: the volume is below twice its 20-day mean
Tied(c) == [BaseDragon EXCEPT !.code = c, !.vol = 19000]

\* the files a data directory can hold, in the order of glob
Catalogue ==
    << [BaseDragon EXCEPT !.code = 600000],
       Tied(600001), Tied(600002), Tied(600003), Tied(600004), Tied(600005),
       \* score 4, 2, 1 and 0
       [BaseDragon EXCEPT !.code = 600006, !.close = 940, !.ma60 = 930],
       [BaseDragon EXCEPT !.code = 600007, !.close = 940, !.ma60 = 930, !.vol = 19000],
       [BaseDragon EXCEPT !.code = 600008, !.vol = 19000, !.turnover = 1500],
       [BaseDragon EXCEPT !.code = 600009, !.close = 940, !.ma60 = 930,
                          !.vol = 19000, !.turnover = 1600],
       \* no result: the name, the board, the rows, the file, the price, the
       \* means, the volumes, the change
       [BaseDragon EXCEPT !.code = 600010, !.name = Str(<<"S", "T", "hai">>)],
       [BaseDragon EXCEPT !.code = 600011, !.name = Str(<<"*", "hai">>)],
       [BaseDragon EXCEPT !.code = 600012, !.name = NaNName],
       [BaseDragon EXCEPT !.code = 600013, !.name = Absent],
       [BaseDragon EXCEPT !.code = 300014],
       [BaseDragon EXCEPT !.code = 600015, !.rows = MinDragonLen - 1],
       [BaseDragon EXCEPT !.code = 600016, !.kind = "unreadable"],
       [BaseDragon EXCEPT !.code = 600017, !.kind = "no_column"],
       [BaseDragon EXCEPT !.code = 600018, !.close = 2050, !.ma20 = 2000],
       [BaseDragon EXCEPT !.code = 600019, !.close = 490],
       [BaseDragon EXCEPT !.code = 600020, !.ma120 = 1000],
       [BaseDragon EXCEPT !.code = 600021, !.recent_vols = <<9000, 8000, 7000, 9000, 11000>>],
       [BaseDragon EXCEPT !.code = 600022, !.vol = 18000, !.vol_ma20 = 8000],
       [BaseDragon EXCEPT !.code = 600023, !.pct = 290],
       [BaseDragon EXCEPT !.code = 600024, !.pct = 1051] >>

\* code.startswith('30'), code the number filled to 6 digits
StartsWith30(code) == code \div 10000 = 30

\* "ST" in name or "*" in name
NamedOut(name) == InText(name.text) \/ \E k \in 1..Len(name.text) : name.text[k] = "*"

\* 5.0 <= last_close <= 20.0
PriceInRange(f) == Le(5 * Cent, f.close) /\ Le(f.close, 20 * Cent)

is_bull_trend(f) == Gt(f.close, f.ma60) /\ Gt(f.close, f.ma120)

\* any(recent_vols < VOL_MA20 * 0.7)
has_low_vol(f) ==
    \E k \in 1..Len(f.recent_vols) : Lt(f.recent_vols[k] * 10, f.vol_ma20 * 7)

\* last_vol > VOL_MA5 * 1.5
vol_breakout(f) == Gt(f.vol * 10, f.vol_ma5 * 15)

\* 3.0 <= last_pct_change <= 10.5
is_price_ok(f) == Le(3 * Cent, f.pct) /\ Le(f.pct * 10, 105 * Cent)

score(f) ==
    (IF Gt(f.close, f.ma20) THEN 1 ELSE 0)
    + (IF Gt(f.vol, f.vol_ma20 * 2) THEN 2 ELSE 0)
    + (IF Lt(f.turnover, 15 * Cent) THEN 2 ELSE 0)

\* f"{score} ji" as character codes
strength(f) == DigitsOf(score(f)) \o <<32, 32423>>

suggestion(f) ==
    IF score(f) >= 4 THEN "buy" ELSE IF score(f) >= 2 THEN "try" ELSE "watch"

\* the exceptions the try block of analyze_stock meets and its handler takes:
\* a file that cannot be read, a column that is missing, a name that is a
\* float
DragonFault(f) ==
    \/ f.kind # "ok"
    \/ f.rows >= MinDragonLen /\ ~StartsWith30(f.code) /\ Display(f.name).kind # "str"

\* analyze_stock(file_path, name_map): the dictionary, or None
analyze_stock(f) ==
    IF DragonFault(f) THEN None
    ELSE IF f.rows < MinDragonLen THEN None
    ELSE IF StartsWith30(f.code) THEN None
    ELSE IF NamedOut(Display(f.name)) THEN None
    ELSE IF ~PriceInRange(f) THEN None
    ELSE IF is_bull_trend(f) /\ has_low_vol(f) /\ is_price_ok(f) /\ vol_breakout(f)
    THEN [date |-> f.date, code |-> f.code, name |-> Display(f.name).text,
          close |-> f.close, pct |-> f.pct, turnover |-> f.turnover,
          strength |-> strength(f), suggestion |-> suggestion(f)]
    ELSE None

RECURSIVE SortByStrength(_)
\* sort_values(by=strength, ascending=False) of fewer than 17 rows: the rows
\* of the higher strength first, rows of one strength in the order they had
SortByStrength(rows) ==
    IF Len(rows) <= 1 THEN rows
    ELSE LET rest == SortByStrength(Tail(rows))
             ahead == SelectSeq(rest, LAMBDA r : LexLess(rows[1].strength, r.strength))
             behind == SelectSeq(rest, LAMBDA r : ~LexLess(rows[1].strength, r.strength))
         IN  ahead \o <<rows[1]>> \o behind

\* .head(5)
TopFive(rows) == SubSeq(rows, 1, IF Len(rows) < TopRows THEN Len(rows) ELSE TopRows)

\* main up to as_completed: the files found, from some place of the
\* catalogue on, and a future for each
DragonStart ==
    /\ \E n \in 0..MaxDragon : \E o \in 0..(Len(Catalogue) - n) :
          /\ files = SubSeq(Catalogue, o + 1, o + n)
          /\ pending = 1..n
    /\ dragon_results = <<>>
    /\ res_df = <<>>
    /\ dragon_pc = "collect"

\* as_completed gives the future of file t, which has completed before the
\* other pending ones; res = future.result(); if res: results.append(res)
DragonCollect(t) ==
    /\ dragon_pc = "collect" /\ t \in pending
    /\ pending' = pending \ {t}
    /\ dragon_results' = IF analyze_stock(files[t]) = None THEN dragon_results
                         ELSE Append(dragon_results, analyze_stock(files[t]))
    /\ UNCHANGED <<files, res_df, dragon_pc>>
    /\ UNCHANGED <<main_vars, call_vars, scan_vars, ind_vars, advice_vars>>

\* every future has been given: the sort, the head and the report, if there
\* is a result
DragonSave ==
    /\ dragon_pc = "collect" /\ pending = {}
    /\ res_df' = TopFive(SortByStrength(dragon_results))
    /\ dragon_pc' = "done"
    /\ UNCHANGED <<files, pending, dragon_results>>
    /\ UNCHANGED <<main_vars, call_vars, scan_vars, ind_vars, advice_vars>>

NextDragon ==
    \/ \E t \in pending : DragonCollect(t)
    \/ DragonSave

(* --------------------------- portfolio_tracker ------------------------- *)

\* the positions are at most MaxHeld days old
MaxHeld == 32
\* the day a position was bought
BuyDay == 100

RECURSIVE DigitOf(_, _, _, _)
\* the largest digit t >= d below Base with b * t <= a, its bits from k down
DigitOf(a, b, k, d) ==
    IF k < 0 THEN d
    ELSE IF BigCmp(BigMul(b, d + Pow2(k)), a) <= 0 THEN DigitOf(a, b, k - 1, d + Pow2(k))
    ELSE DigitOf(a, b, k - 1, d)

RECURSIVE LongDiv(_, _, _, _)
\* the long division of the limbs k, k-1, ..., 1 of a by b > 0, rem carried in
LongDiv(a, b, k, rem) ==
    IF k = 0 THEN [q |-> <<>>, r |-> rem]
    ELSE LET cur == Trim(<<a[k]>> \o rem)
             d == DigitOf(cur, b, LimbBits - 1, 0)
         IN  IF d = 0
             THEN LET low == LongDiv(a, b, k - 1, cur)
                  IN  [q |-> low.q \o <<0>>, r |-> low.r]
             ELSE LET low == LongDiv(a, b, k - 1, BigSub(cur, BigMul(b, d)))
                  IN  [q |-> low.q \o <<d>>, r |-> low.r]

\* x / y of two floats, y not 0
FQuot(x, y) ==
    IF Len(x.mag) = 0 THEN FZero
    ELSE LET a == ShiftLeft(x.mag, Guard + Mantissa)
             d == LongDiv(a, y.mag, Len(a), <<>>)
         IN  Nearest(x.neg # y.neg, Trim(d.q), x.exp - y.exp - Guard - Mantissa,
                     Len(d.r) > 0)

FNeg(x) == Float(~x.neg, x.mag, x.exp)

\* x < y
FLess(x, y) == LET d == FAdd(x, FNeg(y)) IN Len(d.mag) > 0 /\ d.neg

\* the float of an integer
FromInt(n) == IF n = 0 THEN FZero ELSE Float(n < 0, Big(IF n < 0 THEN 0 - n ELSE n), 0)

\* (now.date() - pd.to_datetime(row[buy date]).date()).days
HoldDays(row, now) == now - row.date

\* (current_price - row[buy price]) / row[buy price] * 100, the prices in
\* units of 1/FP and the buy price above 0: NaN if a price is NaN
Profit(row, price) ==
    IF IsNaN(price) \/ IsNaN(row.price) THEN [nan |-> TRUE, val |-> FZero]
    ELSE [nan |-> FALSE,
          val |-> FMul(FQuot(FAdd(FromUnits(price), FNeg(FromUnits(row.price))),
                             FromUnits(row.price)), 100)]

\* profit < n and profit > n: a NaN is neither
ProfitBelow(profit, n) == ~profit.nan /\ FLess(profit.val, FromInt(n))
ProfitAbove(profit, n) == ~profit.nan /\ FLess(FromInt(n), profit.val)

\* the holding days tested before the loss
calculate_adviceDaysFirst(row, price, now) ==
    LET hold_days == HoldDays(row, now)
        profit == Profit(row, price)
    IN  IF hold_days >= 30 THEN "expiry"
        ELSE IF ProfitBelow(profit, 0 - 8) THEN "stop_loss"
        ELSE IF hold_days >= 20 /\ ProfitAbove(profit, 5) THEN "take_profit"
        ELSE IF hold_days < 5 THEN "new"
        ELSE "holding"

\* calculate_advice(row, current_price) on the day now
calculate_advice(row, price, now) ==
    LET hold_days == HoldDays(row, now)
        profit == Profit(row, price)
    IN  IF ProfitBelow(profit, 0 - 8) THEN "stop_loss"
        ELSE IF hold_days >= 30 THEN "expiry"
        ELSE IF hold_days >= 20 /\ ProfitAbove(profit, 5) THEN "take_profit"
        ELSE IF hold_days < 5 THEN "new"
        ELSE "holding"

\* the buy prices and the latest closes, in units of 1/FP
BuyPrices == {1000, 1250, 333}
LatestPrices == {NaN, 300, 306, 307, 900, 919, 920, 921, 1000, 1050, 1051, 1150,
                 1200, 1312, 1313, 1500}

\* a row of the portfolio, the latest close of its instrument and the day
AdviceStart ==
    /\ \E b \in BuyPrices : holding = [date |-> BuyDay, price |-> b]
    /\ current_price \in LatestPrices
    /\ today \in (BuyDay - 1)..(BuyDay + MaxHeld)
    /\ advice = ""

Advise ==
    /\ advice = ""
    /\ advice' = calculate_advice(holding, current_price, today)
    /\ UNCHANGED <<holding, current_price, today>>
    /\ UNCHANGED <<main_vars, call_vars, scan_vars, ind_vars, dragon_vars>>

NextAdvice == Advise

(* ---------------------------- specifications --------------------------- *)

Next ==
    \/ Dispatch
    \/ ReadCsv
    \/ CalcIndicators
    \/ ScanBar
    \/ Return
    \/ Collect
    \/ Flatten
    \/ Summarize

Spec == Init /\ [][Next]_vars

\* a run of main over one file
InitOneFile == Init /\ nfiles = 1

SpecOneFile == InitOneFile /\ [][Next]_vars

\* a run of the scanner, the backtester not run
InitScan == BacktesterStart /\ nfiles = 0 /\ ScannerStart /\ SideAtRest

SpecScan == InitScan /\ [][NextScan]_vars

\* the indicator functions over one table, no program run
InitInd ==
    /\ BacktesterStart /\ nfiles = 0 /\ ScannerAtRest
    /\ IndicatorsStart /\ DragonAtRest /\ AdviceAtRest

SpecInd == InitInd /\ [][NextInd]_vars

\* a run of dragon_breakout_strategy.main, no other program run
InitDragon ==
    /\ BacktesterStart /\ nfiles = 0 /\ ScannerAtRest
    /\ IndicatorsAtRest /\ DragonStart /\ AdviceAtRest

SpecDragon == InitDragon /\ [][NextDragon]_vars

\* a call of portfolio_tracker.calculate_advice, no other program run
InitAdvice ==
    /\ BacktesterStart /\ nfiles = 0 /\ ScannerAtRest
    /\ IndicatorsAtRest /\ DragonAtRest /\ AdviceStart

SpecAdvice == InitAdvice /\ [][NextAdvice]_vars

(* --------------------------------- claims ------------------------------ *)

\* the bar of the frame a row was emitted for: the one bearing its date
BarOf(frame, row) ==
    CHOOSE k \in 0..(Len(frame.date) - 1) : iloc(frame.date, k) = row.date

RowsOf(rows) == {rows[j] : j \in 1..Len(rows)}

\* the call holds a frame with its indicators and the rows emitted so far
Scanning == wpc = "scan" \/ (wpc = "done" /\ Len(df.close) >= MinLen /\ "rsi6" \in DOMAIN df)

\* the iteration just finished emitted the last row of stock_signals
JustEmitted ==
    /\ wpc = "scan" /\ i > WarmUp /\ Len(stock_signals) > 0
    /\ stock_signals[Len(stock_signals)].date = iloc(df.date, i - 1)

\* v is (exit - entry) / entry * 100 to the nearest 1/FP, entry > 0
IsRoundedPct(v, exit, entry) ==
    LET err == v * entry - (exit - entry) * 100 * FP
    IN  2 * err <= entry /\ 2 * err >= 0 - entry

\* C1: when an iteration on bar i emits a signal, the buy price it used, for
\* each of the signal's returns, is the open of bar i + 1.
C1_EntryIsNextOpen ==
    JustEmitted =>
        /\ buy_price = iloc(df.open, i)
        /\ \A j \in 1..Len(HOLD_PERIODS) :
              stock_signals[Len(stock_signals)].returns[j] =
                 PctReturn(iloc(df.close, i - 1 + HOLD_PERIODS[j]), buy_price)

C1_Witness ==
    /\ JustEmitted
    /\ buy_price = iloc(df.open, i)
    /\ buy_price # iloc(df.open, i - 1)

\* C2: every return of every emitted signal, at bar k and horizon h, is
\* (close[k+h] - open[k+1]) / open[k+1] * 100 rounded to two places, and is
\* not a number where that close or that open is missing.
C2_ReturnFormula ==
    Scanning =>
        \A row \in RowsOf(stock_signals) : \A j \in 1..Len(HOLD_PERIODS) :
            LET k == BarOf(df, row)
                entry == iloc(df.open, k + 1)
                exit == iloc(df.close, k + HOLD_PERIODS[j])
            IN  IF IsNaN(entry) \/ IsNaN(exit) THEN IsNaN(row.returns[j])
                ELSE /\ ~IsNaN(row.returns[j])
                     /\ entry > 0
                     /\ IsRoundedPct(row.returns[j], exit, entry)

C2_Witness ==
    /\ Scanning
    /\ \E row \in RowsOf(stock_signals) :
          /\ \E j \in 1..Len(HOLD_PERIODS) : Gt(row.returns[j], 0)
          /\ \E j \in 1..Len(HOLD_PERIODS) :
                /\ Lt(row.returns[j], 0)
                /\ (row.returns[j] * iloc(df.open, BarOf(df, row) + 1)) #
                      (iloc(df.close, BarOf(df, row) + HOLD_PERIODS[j])
                         - iloc(df.open, BarOf(df, row) + 1)) * 100 * FP

\* C3: the scan reads only bars of [WarmUp, n - max(HOLD_PERIODS) - 1]: the
\* index it reads next never passes n - max(HOLD_PERIODS), every emitted
\* signal's bar k is in the range, bar k + h exists for every horizon h, and
\* no read of the frame falls outside it.
C3_IndexRange ==
    /\ wpc = "scan" =>
          /\ WarmUp <= i
          /\ i <= Len(df.close) - MaxHold
    /\ Scanning =>
          \A row \in RowsOf(stock_signals) :
             /\ WarmUp <= BarOf(df, row)
             /\ BarOf(df, row) <= Len(df.close) - MaxHold - 1
             /\ \A j \in 1..Len(HOLD_PERIODS) :
                   BarOf(df, row) + HOLD_PERIODS[j] <= Len(df.close) - 1
    /\ exc # "IndexError df"

C3_Witness ==
    /\ wpc = "done" /\ exc = ""
    /\ \E row \in RowsOf(ret) : BarOf(df, row) = WarmUp
    /\ \E row \in RowsOf(ret) : BarOf(df, row) = Len(df.close) - MaxHold - 1

\* the frame of the bars up to and including bar k, and nothing after
Upto(frame, k) ==
    calculate_indicators([date |-> SubSeq(frame.date, 1, k + 1),
                          open |-> SubSeq(frame.open, 1, k + 1),
                          close |-> SubSeq(frame.close, 1, k + 1),
                          volume |-> SubSeq(frame.volume, 1, k + 1)])

\* the weekly state matched to a date: whether a row is found, and if so its
\* level and weekly RSI as the signal's row would hold them
WeeklyStatus(weekly, date) ==
    LET upto == WeeksUpTo(weekly, date)
    IN  IF Len(upto) = 0 THEN <<FALSE, "", NaN>>
        ELSE <<TRUE,
               IF Lt(upto[Len(upto)].w_rsi6, WEEKLY_RSI_THRESHOLD * FP) THEN "SSS" ELSE "B",
               Round1(upto[Len(upto)].w_rsi6)>>

\* C4: at the bar i the scan is about to read, the firing decision and the
\* level and weekly RSI matched to the bar are those of the series cut off
\* after bar i: no bar after i has a part in them.
C4_NoLookAhead ==
    (wpc = "scan" /\ i < Len(df.close)) =>
        /\ is_ignition(df, i) = is_ignition(Upto(df, i), i)
        /\ WeeklyStatus(df_w, iloc(df.date, i)) =
              WeeklyStatus(get_weekly_rsi(Upto(df, i)), iloc(df.date, i))

C4_Witness ==
    /\ wpc = "scan" /\ i < Len(df.close)
    /\ is_ignition(df, i)
    /\ WeeklyStatus(df_w, iloc(df.date, i))[1]
    /\ \E k \in (i + 1)..(Len(df.close) - 1) :
          /\ WeekLabel(iloc(df.date, k)) = WeekLabel(iloc(df.date, i))
          /\ iloc(df.close, k) # iloc(df.close, i)

\* C5: no exception leaves backtest_single_stock: a call that met a fault
\* returns the empty list, pool.map is never left by an exception, and main
\* goes on to hold one result for each file.
C5_NeverRaises ==
    /\ wpc # "raised"
    /\ mpc # "aborted"
    /\ (wpc = "done" /\ exc # "") => ret = <<>>
    /\ (wpc = "done" /\ file.kind \in Kinds \ {"ok", "no_open"}) => exc # ""
    /\ mpc # "map" => Len(results) = nfiles

\* the call on the first file met a fault and returned the empty list, and
\* main has handed the second file to the next call
C5_Witness ==
    /\ wpc = "read" /\ stock_code = 2
    /\ exc = "KeyError"
    /\ results = << <<>> >>

\* C6: a series of fewer than MinLen bars, one of 99 bars among them, is
\* turned down before any indicator is computed: the call returns the empty
\* list and no exception leaves it.
C6_ShortSeries ==
    file.n < MinLen =>
        /\ wpc \in {"idle", "read", "done"}
        /\ wpc = "done" => ret = <<>>

C6_Witness ==
    /\ wpc = "done" /\ file.kind = "ok" /\ exc = ""
    /\ file.n = 99 /\ Len(df.close) = 99
    /\ ret = <<>>

\* the bars of [WarmUp, n - max(HOLD_PERIODS) - 1] at which the predicate of
\* the scan holds
FiringBars(frame) ==
    {k \in WarmUp..(Len(frame.close) - MaxHold - 1) : is_ignition(frame, k)}

\* the bars of a series at which RSI6 < 25, close > MA5, the volume is above
\* the bar before and the MACD histogram improves
ScenarioBars(frame) ==
    {k \in 1..(Len(frame.close) - 1) :
        /\ is_ignition(frame, k)
        /\ Gt(iloc(frame.volume, k), iloc(frame.volume, k - 1))}

\* the list holds one row, for bar k, its returns taken from the open of k + 1
OneSignalAt(rows, frame, k) ==
    /\ Len(rows) = 1
    /\ rows[1].date = iloc(frame.date, k)
    /\ \A j \in 1..Len(HOLD_PERIODS) :
          rows[1].returns[j] =
             PctReturn(iloc(frame.close, k + HOLD_PERIODS[j]), iloc(frame.open, k + 1))

RowsAtLevel(rows, level) == Len(SelectSeq(rows, LAMBDA r : r.level = level))

\* C8: a firing bar whose next bar opens at or below zero leaves no row: no
\* emitted row has such an entry, a call that ends without a fault returns
\* the rows of exactly the other firing bars of the range (the bars after a
\* discarded one are scanned), the ledger holds the returned rows alone and
\* each summary row counts the ledger rows of its level.
C8_DiscardedEntry ==
    /\ Scanning =>
          \A row \in RowsOf(stock_signals) :
             ~Le(iloc(df.open, BarOf(df, row) + 1), 0)
    /\ (Scanning /\ wpc = "done" /\ exc = "") =>
          /\ {row.date : row \in RowsOf(ret)} =
                {iloc(df.date, k) : k \in {b \in FiringBars(df) :
                                              ~Le(iloc(df.open, b + 1), 0)}}
          /\ Len(ret) = Cardinality({row.date : row \in RowsOf(ret)})
    /\ mpc \in {"stats", "done"} => ledger = Flat(results)
    /\ \A j \in 1..Len(summary) :
          summary[j].count = RowsAtLevel(ledger, summary[j].level)

\* a firing bar was discarded, a later bar's row was returned, and the summary
\* counts that row alone
C8_Witness ==
    /\ Scanning /\ wpc = "done" /\ exc = ""
    /\ \E k \in FiringBars(df) :
          /\ Le(iloc(df.open, k + 1), 0)
          /\ \E row \in RowsOf(ret) : BarOf(df, row) > k
    /\ Len(ret) = 1

\* C9 as stated: no return that is not finite reaches the ledger (a return
\* that cannot be computed is recorded as a sentinel and flagged).
C9_LedgerFinite ==
    \A j \in 1..Len(ledger) : \A h \in 1..Len(HOLD_PERIODS) :
        ~IsNaN(ledger[j].returns[h])

\* the returns of one level of the ledger at one holding period
ReturnsAt(rows, level, period) ==
    LET sub_df == SelectSeq(rows, LAMBDA r : r.level = level)
        h == CHOOSE j \in 1..Len(HOLD_PERIODS) : HOLD_PERIODS[j] = period
    IN  [k \in 1..Len(sub_df) |-> sub_df[k].returns[h]]

\* the three statistics of a summary row taken over the returns that are
\* numbers
DropNull(srow, col) ==
    /\ srow.count = Valid(col)
    /\ Valid(col) > 0
    /\ srow.win_rate = RoundDiv(Wins(col) * 100 * FP, Valid(col))
    /\ srow.avg_ret = Mean(col, Valid(col))

\* the three statistics of a summary row taken over every return, one that is
\* no number counted as zero
ZeroFill(srow, col) ==
    /\ srow.count = Len(col)
    /\ srow.win_rate = RoundDiv(Wins(col) * 100 * FP, Len(col))
    /\ srow.avg_ret = Mean(col, Len(col))

\* C10 as stated: the win rate, the average return and the sample count of
\* each summary row are taken over one population of returns, under one
\* policy for the returns that are not finite.
C10_OnePopulation ==
    \A j \in 1..Len(summary) :
        LET col == ReturnsAt(ledger, summary[j].level, summary[j].period)
        IN  DropNull(summary[j], col) \/ ZeroFill(summary[j], col)

\* the orders in which n lists can be merged
Perms(n) == {p \in [1..n -> 1..n] : \A a, b \in 1..n : p[a] = p[b] => a = b}

\* the lists in the order p
Permuted(lists, p) == [j \in 1..Len(lists) |-> lists[p[j]]]

\* C11 as stated: the summary main writes is the summary of the per-file
\* lists merged in any other order: win rate, average return and sample count
\* of every level and holding period are the same.
C11_OrderIndependent ==
    (mpc = "done" /\ Len(ledger) > 0) =>
        \A p \in Perms(Len(results)) :
            SummaryOf(Flat(Permuted(results, p))) = summary

\* x = y
FEq(x, y) == Len(FAdd(x, Float(~y.neg, y.mag, y.exp)).mag) = 0

RECURSIVE Total(_)
\* the sum of a sequence of numbers
Total(nums) == IF Len(nums) = 0 THEN 0 ELSE nums[1] + Total(Tail(nums))

RECURSIVE FTotal(_, _, _)
\* the float64 sum of a sequence of floats, from the first to the last
FTotal(sums, k, acc) ==
    IF k > Len(sums) THEN acc ELSE FTotal(sums, k + 1, FAdd(acc, sums[k]))

\* per file, the rows of a level, and at a holding period the returns above
\* zero, the returns that are numbers and the sum of the returns
PartCounts(lists, level) ==
    [k \in 1..Len(lists) |-> RowsAtLevel(lists[k], level)]
PartWins(lists, level, period) ==
    [k \in 1..Len(lists) |-> Wins(ReturnsAt(lists[k], level, period))]
PartValid(lists, level, period) ==
    [k \in 1..Len(lists) |-> Valid(ReturnsAt(lists[k], level, period))]
PartSums(lists, level, period) ==
    [k \in 1..Len(lists) |-> FSum(ReturnsAt(lists[k], level, period), 1, FZero)]

\* C12 as stated: for every level and holding period, the sample count, the
\* win count and the return sum over the merged ledger are the sums of those
\* of each file's own list, and the summary row is their weighted combination.
C12_SumOfParts ==
    \A j \in 1..Len(summary) :
        LET lv == summary[j].level
            pd == summary[j].period
            col == ReturnsAt(ledger, lv, pd)
            counts == Total(PartCounts(results, lv))
            valid == Total(PartValid(results, lv, pd))
            sum == FTotal(PartSums(results, lv, pd), 1, FZero)
        IN  /\ Len(col) = counts
            /\ Wins(col) = Total(PartWins(results, lv, pd))
            /\ FEq(FSum(col, 1, FZero), sum)
            /\ summary[j].count = counts
            /\ summary[j].win_rate =
                  RoundDiv(Total(PartWins(results, lv, pd)) * 100 * FP, counts)
            /\ summary[j].avg_ret =
                  IF valid = 0 THEN NaN ELSE Round2(FDiv(sum, valid))

\* C13 as stated: reading the summary top to bottom, the holding period never
\* decreases.
C13_HorizonAscending ==
    \A j \in 1..(Len(summary) - 1) : summary[j].period <= summary[j + 1].period

\* C13 as amended: the summary is ordered by level, the rows of level B before
\* those of level SSS, and within a level by holding period ascending, one
\* row for each holding period.
C13_LevelThenHorizon ==
    /\ \A j \in 1..(Len(summary) - 1) :
          \/ summary[j].level = "B" /\ summary[j + 1].level = "SSS"
          \/ /\ summary[j].level = summary[j + 1].level
             /\ summary[j].period < summary[j + 1].period
    /\ \A j \in 1..Len(summary) :
          {summary[k].period : k \in {m \in 1..Len(summary) :
                                         summary[m].level = summary[j].level}}
             = {HOLD_PERIODS[h] : h \in 1..Len(HOLD_PERIODS)}

\* a summary of both levels
C13_Witness ==
    /\ mpc = "done"
    /\ Len(summary) = 2 * Len(HOLD_PERIODS)
    /\ summary[1].level = "B"
    /\ summary[Len(summary)].level = "SSS"

\* C14: the merge starts only when no call is in progress and main holds one
\* list for each file found, the last file dispatched being the last found;
\* the lists do not change from then on, the ledger is written once, from
\* them, and nothing is computed from a ledger before that.
C14_AggregateAfterJoin ==
    /\ [](mpc \in {"stats", "done"} =>
            /\ wpc = "idle"
            /\ Len(results) = nfiles
            /\ (nfiles > 0 => stock_code = nfiles))
    /\ [][(mpc' # mpc \/ ledger' # ledger \/ summary' # summary) =>
            /\ wpc = "idle" /\ wpc' = "idle"
            /\ Len(results) = nfiles
            /\ results' = results
            /\ (ledger' # ledger =>
                  mpc = "map" /\ ledger = <<>> /\ ledger' = Flat(results))
            /\ (summary' # summary => mpc = "stats" /\ ledger' = ledger)]_vars

C14_Witness ==
    /\ mpc = "stats" /\ wpc = "idle"
    /\ nfiles = 2 /\ Len(results) = 2
    /\ Len(results[1]) > 0 /\ Len(results[2]) > 0
    /\ ledger = Flat(results)

\* C15: a call that met a fault takes nothing from the other files: no
\* exception leaves pool.map, the lists main holds are never changed or
\* dropped, each call adds the list it returned, the empty list if it met a
\* fault, each dispatch takes a file not dispatched before, and the ledger is
\* the lists merged.
C15_FailureIsolated ==
    /\ [](mpc # "aborted")
    /\ [](mpc \in {"stats", "done"} => ledger = Flat(results))
    /\ [][/\ Len(results') >= Len(results)
          /\ \A j \in 1..Len(results) : results'[j] = results[j]
          /\ Len(results') > Len(results) =>
                /\ Len(results') = Len(results) + 1
                /\ results'[Len(results')] = ret
                /\ (exc # "" => ret = <<>>)
          /\ (wpc = "idle" /\ wpc' = "read") =>
                /\ stock_code' = Len(results) + 1
                /\ stock_code' > stock_code]_vars

\* the second file met a fault, and the ledger is the rows of the first
C15_Witness ==
    /\ mpc = "done" /\ exc # ""
    /\ Len(results) = 2
    /\ Len(results[1]) > 0 /\ results[2] = <<>>
    /\ ledger = results[1]
    /\ Len(summary) > 0

\* C16 as stated: a run that found no input file ends with an exit status
\* other than zero.
C16_NoFilesIsFatal ==
    (nfiles = 0 /\ mpc # "map") => ExitStatus # 0

RECURSIVE RowsFor(_, _, _, _)
\* the rows of the bars of a list, in the order of the list
RowsFor(code, frame, weekly, bars) ==
    IF Len(bars) = 0 THEN <<>>
    ELSE <<SignalRow(code, frame, weekly, bars[1])>>
            \o RowsFor(code, frame, weekly, Tail(bars))

\* the signal events of the table of a well-formed file: none if it is too
\* short, else one for each firing bar of the range whose next bar opens
\* above zero, in the order of the bars
Engine(code, f) ==
    LET frame == calculate_indicators(read_csv(f))
        weekly == get_weekly_rsi(frame)
        bars == {k \in FiringBars(frame) : ~Discarded(iloc(frame.open, k + 1))}
    IN  IF TooShort(f.n) THEN <<>>
        ELSE RowsFor(code, frame, weekly, SortedSeq(bars))

\* C17 as stated: a file holding the bars of a series in another row order
\* yields the signal events of the file holding them in the order of their
\* dates.
C17_RowOrderIrrelevant ==
    (wpc = "done" /\ exc = "" /\ file.kind = "ok" /\ file.swap >= 0) =>
        ret = Engine(stock_code, Sorted(file))

\* C18: the rows of one call are in strictly increasing order of their bars,
\* in the list being built and in the list returned, which for a file in date
\* order is the order of their dates; the list returned is the list built, one
\* row for each firing bar kept; and the returns of a row are those of the
\* holding periods in the order of HOLD_PERIODS.
C18_ChronologicalOrder ==
    /\ Scanning =>
          /\ \A a, b \in 1..Len(stock_signals) :
                a < b => BarOf(df, stock_signals[a]) < BarOf(df, stock_signals[b])
          /\ \A row \in RowsOf(stock_signals) :
                /\ DOMAIN row.returns = 1..Len(HOLD_PERIODS)
                /\ \A j \in 1..Len(HOLD_PERIODS) :
                      row.returns[j] =
                         PctReturn(iloc(df.close, BarOf(df, row) + HOLD_PERIODS[j]),
                                   iloc(df.open, BarOf(df, row) + 1))
    /\ (Scanning /\ wpc = "done" /\ exc = "") =>
          /\ \A a, b \in 1..Len(ret) :
                a < b => /\ BarOf(df, ret[a]) < BarOf(df, ret[b])
                         /\ file.swap < 0 => ret[a].date < ret[b].date
          /\ file.kind = "ok" => ret = Engine(stock_code, file)

\* a call returned two rows, the later bar's row after the earlier bar's
C18_Witness ==
    /\ Scanning /\ wpc = "done" /\ exc = ""
    /\ Len(ret) = 2
    /\ BarOf(df, ret[1]) = WarmUp
    /\ BarOf(df, ret[2]) > WarmUp
    /\ ret[1].returns # ret[2].returns

\* the call on task t gets to the counting step
ReachesCount(t) ==
    /\ NameOf(name_map, t).kind = "str"
    /\ ~SkippedUncounted(file_list[t], NameOf(name_map, t))

\* the call on task t has written to stats_dict
HasWritten(t) ==
    \/ spc[t] \in {"gate", "inc_price", "inc_turnover"}
    \/ spc[t] = "done" /\ ReachesCount(t)

\* C19 as stated: no object is written by two workers: at most one call ever
\* writes to stats_dict, so that what a call has read of it for its += 1 is
\* still there when the call writes.
C19_NoSharedWrites ==
    /\ Cardinality({t \in Tasks : HasWritten(t)}) <= 1
    /\ \A t \in Tasks :
          /\ spc[t] = "inc_total" => tmp[t] = stats_dict.total_scanned
          /\ spc[t] = "inc_price" => tmp[t] = stats_dict.fail_price
          /\ spc[t] = "inc_turnover" => tmp[t] = stats_dict.fail_turnover

\* the entries a name map can hold for a code
NameEntries == {inst.name : inst \in Instruments}

\* the name the entry stands for holds an s and a t in a row, in either case
ContainsST(entry) ==
    LET text == Display(entry).text
    IN  \E k \in 1..(Len(text) - 1) :
           text[k] \in {"S", "s"} /\ text[k + 1] \in {"T", "t"}

\* what the call on task t ended with
EndedWith(t) == IF spc[t] = "raised" THEN Raised ELSE raw_results[t]

PastWarmUp(close) == 7..Len(close)

\* the average loss over the 6 bars up to position k is 0: no close of the
\* window is below the close before it
NoLoss(close, k) == \A j \in (k - 5)..k : close[j] >= close[j - 1]

\* v is a number of [0, 100], in units of 1/FP
InRsiRange(v) == ~IsNaN(v) /\ 0 <= v /\ v <= 100 * FP

\* C21 as stated: at every bar past the warm-up window the RSI of the scanner,
\* of the backtester and of Breakout_Left_Peak is a number of [0, 100], and it
\* is 100 where the average loss over the window is 0.
C21_RsiDefined ==
    ind # <<>> =>
        \A k \in PastWarmUp(ohlc.close) :
            \A rsi \in {ind.scanner.rsi6, ind.backtester, ind.left_peak} :
                /\ InRsiRange(rsi[k])
                /\ NoLoss(ohlc.close, k) => rsi[k] = 100 * FP

RECURSIVE RefGain(_, _, _)
\* the sum of max(close[j] - close[j-1], 0) over the positions lo..hi
RefGain(close, lo, hi) ==
    IF lo > hi THEN 0
    ELSE (IF close[lo] > close[lo - 1] THEN close[lo] - close[lo - 1] ELSE 0)
         + RefGain(close, lo + 1, hi)

RECURSIVE RefLoss(_, _, _)
\* the sum of max(close[j-1] - close[j], 0) over the positions lo..hi
RefLoss(close, lo, hi) ==
    IF lo > hi THEN 0
    ELSE (IF close[lo] < close[lo - 1] THEN close[lo - 1] - close[lo] ELSE 0)
         + RefLoss(close, lo + 1, hi)

\* the reference RSI at position k, in units of 1/FP: 100 - 100 / (1 + RS) is
\* 100 * avg_gain / (avg_gain + avg_loss), for avg_loss > 0
ReferenceRsi(close, k) ==
    FloorDiv(100 * FP * RefGain(close, k - 5, k),
             RefGain(close, k - 5, k) + RefLoss(close, k - 5, k))

\* C22 as stated: at every bar past the warm-up window where the average loss
\* is above 0, the backtester's RSI6 is the reference RSI, 100 - 100 / (1 + RS)
\* with RS the average gain over the average loss of the 6 bars.
C22_ReferenceRsi ==
    ind # <<>> =>
        \A k \in PastWarmUp(ohlc.close) :
            RefLoss(ohlc.close, k - 5, k) > 0 =>
                ind.backtester[k] = ReferenceRsi(ohlc.close, k)

\* C23 as stated: at every bar with a full 9-bar window the RSV of the scanner
\* is a number, 50 where the 9-bar high is the 9-bar low, and K and D are
\* numbers there.
C23_RsvDefined ==
    ind # <<>> =>
        \A k \in 9..Len(ohlc.close) :
            /\ ~IsNaN(ind.scanner.rsv[k])
            /\ ind.scanner.high_list[k] = ind.scanner.low_list[k] =>
                  ind.scanner.rsv[k] = 50 * FP
            /\ ~IsNaN(ind.scanner.kdj_k[k])
            /\ ~IsNaN(ind.scanner.kdj_d[k])

\* C24 as stated: what a call of backtest_single_stock that met a fault hands
\* to its caller differs from what a call that found no signal hands to it,
\* the empty list.
C24_FaultObservable ==
    (wpc = "done" /\ exc # "") => ret # <<>>

\* C25 as stated: no call of process_single_stock ends by raising, whatever
\* the name map holds for its file, and pool.map is never left by an
\* exception.
C25_NoFaultCrosses ==
    /\ \A t \in Tasks : spc[t] # "raised"
    /\ scan_pc # "aborted"

\* the tasks that get to the counting step and are turned down at the price
\* gate, and at the turnover gate
PriceFails == {t \in Tasks : ReachesCount(t) /\ FailsPrice(file_list[t].latest)}
TurnoverFails ==
    {t \in Tasks : /\ ReachesCount(t)
                   /\ ~FailsPrice(file_list[t].latest)
                   /\ FailsTurnover(file_list[t].latest)}

\* C26 as stated: when main has finished, total_scanned is the number of
\* files that got to the counting step, and fail_price and fail_turnover are
\* the numbers of files turned down at the price gate and at the turnover
\* gate, whatever the order of the workers' steps.
C26_NoLostIncrement ==
    scan_pc = "done" =>
        /\ stats_dict.total_scanned = Cardinality({t \in Tasks : ReachesCount(t)})
        /\ stats_dict.fail_price = Cardinality(PriceFails)
        /\ stats_dict.fail_turnover = Cardinality(TurnoverFails)

RECURSIVE AnalyzeAll(_)
\* the results of the files, in the order of the files
AnalyzeAll(fs) ==
    IF Len(fs) = 0 THEN <<>>
    ELSE (IF analyze_stock(fs[1]) = None THEN <<>> ELSE <<analyze_stock(fs[1])>>)
         \o AnalyzeAll(Tail(fs))

\* the codes of the rows of a report
CodesOf(rows) == {rows[k].code : k \in 1..Len(rows)}

\* C27 as stated: the instruments of the report are those of the report that
\* main writes when the futures complete in the order they were submitted in:
\* every completion order gives one and the same set.
C27_SameTopFive ==
    dragon_pc = "done" =>
        CodesOf(res_df) = CodesOf(TopFive(SortByStrength(AnalyzeAll(files))))

\* the condition of tier n on the latest bar
TierHolds(n, latest) ==
    CASE n = 0 -> Tier0(latest)
      [] n = 1 -> Tier1(latest)
      [] n = 2 -> Tier2(latest)
      [] n = 3 -> Tier3(latest)

\* process_single_stock has returned a dictionary for task t
Returned(t) == spc[t] = "done" /\ raw_results[t].tag >= 0

\* C28: a returned record carries one tag of 0..3, the first tier in the order
\* 0, 1, 2, 3 whose condition holds on the latest bar, so that some tier
\* holds; its instrument is oversold (rsi6 <= 25, rsi14 <= 35, kdj_k <= 30)
\* and was stopped neither by the price gate nor by the turnover gate.
C28_TagByPriority ==
    \A t \in Tasks : Returned(t) =>
        LET latest == file_list[t].latest
            tag == raw_results[t].tag
        IN  /\ tag \in 0..3
            /\ TierHolds(tag, latest)
            /\ \A n \in 0..3 : n < tag => ~TierHolds(n, latest)
            /\ Le(latest.rsi6, 25 * Cent) /\ Le(latest.rsi14, 35 * Cent)
            /\ Le(latest.kdj_k, 30 * Cent)
            /\ ~Lt(latest.close, 5 * Cent)
            /\ ~Gt(latest.avg_turnover_30, MAX_AVG_TURNOVER_30)

\* two records have been returned: one of tier 0 for an instrument that the
\* conditions of all later tiers hold for as well, one of tier 2 for an
\* instrument that the condition of tier 3 holds for
C28_Witness ==
    /\ \E t \in Tasks :
          /\ Returned(t) /\ raw_results[t].tag = 0
          /\ \A n \in 1..3 : TierHolds(n, file_list[t].latest)
    /\ \E t \in Tasks :
          /\ Returned(t) /\ raw_results[t].tag = 2
          /\ TierHolds(3, file_list[t].latest)

\* the weekly RSI matched to a date: that of the last weekly row up to it
MatchedWeeklyRsi(weekly, date) ==
    LET upto == WeeksUpTo(weekly, date) IN upto[Len(upto)].w_rsi6

\* the level the claim gives a signal of the date
LevelFor(weekly, date) ==
    LET w == MatchedWeeklyRsi(weekly, date)
    IN  IF ~IsNaN(w) /\ w < WEEKLY_RSI_THRESHOLD * FP THEN "SSS" ELSE "B"

RECURSIVE CountSum(_, _)
\* the sample counts of the summary rows of one holding period, added up
CountSum(rows, period) ==
    IF Len(rows) = 0 THEN 0
    ELSE (IF rows[1].period = period THEN rows[1].count ELSE 0)
         + CountSum(Tail(rows), period)

C30_FirstMatch ==
    advice # "" =>
        LET profit == Profit(holding, current_price)
            hold_days == HoldDays(holding, today)
            stop == ProfitBelow(profit, 0 - 8)
            expiry == hold_days >= 30
            take == hold_days >= 20 /\ ProfitAbove(profit, 5)
            new == hold_days < 5
        IN  /\ advice \in {"stop_loss", "expiry", "take_profit", "new", "holding"}
            /\ stop => advice = "stop_loss"
            /\ (~stop /\ expiry) => advice = "expiry"
            /\ (~stop /\ ~expiry /\ take) => advice = "take_profit"
            /\ (~stop /\ ~expiry /\ ~take /\ new) => advice = "new"
            /\ (~stop /\ ~expiry /\ ~take /\ ~new) => advice = "holding"

\* the stop-loss advice was given to a position held for 30 days or more,
\* with a loss above 8 percent
C30_Witness ==
    /\ advice = "stop_loss"
    /\ HoldDays(holding, today) >= 30
    /\ ProfitBelow(Profit(holding, current_price), 0 - 8)

====
